---- MODULE Spec2Model ----
(***************************************************************************)
(* State-machine model of the crypto-sqlite-pipeline: the SQLite store     *)
(* (db.ts), the ingest loops bootstrapSeries / updateSeries (pipeline.ts), *)
(* the verify report and the repair loops (verify.ts, repair.ts).          *)
(*                                                                         *)
(* Time is measured in ticks.  The interval length and the three bar       *)
(* counts of the program (MAX_API_LIMIT = 1000, OVERLAP_BARS = 600,        *)
(* IGNORE_NULL_WARMUP_BARS = 200) are scaled down so that a run has a few  *)
(* chunks; the scaling keeps the order relations the loops depend on:      *)
(*   IGNORE_NULL_WARMUP_BARS < OVERLAP_BARS < MAX_API_LIMIT                *)
(*   MAX_API_LIMIT < 2 * OVERLAP_BARS + 1   (a repair window spans more    *)
(*                                           than one chunk)               *)
(*                                                                         *)
(* An indicator value is abstracted to the window it was computed over:    *)
(* `first` is the open time of the first fetched bar of the window and     *)
(* `idx` the position of the bar in it.  Which of the 14 fields are null   *)
(* is a function of idx (FieldIsNull), read off the kernels.  Exchange     *)
(* closes are positive, so the returns are null at idx 0 only.             *)
(*                                                                         *)
(* The parts the pipeline model abstracts are modelled on their own, each  *)
(* with its specification: the verify report over arbitrary stored series  *)
(* (SpecVerify), the rate limiter and the retrying request of binance.ts   *)
(* (SpecScheduler, SpecBucket, SpecClock, SpecKlines, SpecAdmit, in        *)
(* milliseconds as in the code), the interval loop of the CLI commands     *)
(* (SpecCommand) and the                                                   *)
(* indicator kernels as array computations (SpecIndicators) and, for ema,  *)
(* sma and rsiWilder, as exact rational values (SpecValues).               *)
(***************************************************************************)
EXTENDS Integers, Sequences, FiniteSets, TLC

\* ---------------------------------------------------------------- scaled program constants
IntervalMs == 2
MAX_API_LIMIT == 3
OVERLAP_BARS == 2
IGNORE_NULL_WARMUP_BARS == 1
MIN_GAP_BARS_TO_REPAIR == 1

\* ---------------------------------------------------------------- bounds of the model
MaxBar == 4
MaxHoles == 1
MaxDeletes == 1
MaxKnownGaps == 1
MaxBatch == 2

MaxNow == IntervalMs * (MaxBar + 1) - 1
StartDates == {0, 1}

NULL == -1
Symbol == "BTCUSDT"
Interval == "1h"

VARIABLES
  now,          \* wall clock, Date.now()
  exch,         \* open times of the bars the exchange holds
  cfgStart,     \* Date.parse(cfg.bootstrap.startDate)
  symbols, intervals, series,   \* metadata tables
  candles, indicators,          \* data tables (sets of rows), the connection's view
  known_gaps,                   \* registry table
  txOpen, txSnap,               \* an open transaction and the state BEGIN saw
  op, pc, dryRun,               \* the running command and its position
  start, endClosed, cursor,     \* locals of the ingest loop
  req, klines, candleWrite, indicWrite,
  phase, first, gaps, gi, nullSpans, si,   \* locals of runRepair
  deletes,                      \* deleteRange calls made so far
  runInfo, runSnap,             \* floor(now, ms) when the running command started, the
                                \* command it directly follows and the data tables as it
                                \* found them (see Chained)
  lastRun,                      \* the command that finished last
  maxConcurrent, active, callerPc,   \* RequestScheduler and the schedule calls in flight
  bucket, admitted,             \* TokenBucket and the take() calls it has let through
  retryCfg, call,               \* cfg.rateLimit.retry and one getKlines call
  cmd,                          \* a CLI command walking cfg.intervals
  indIn, indOut                 \* an input series and computeIndicators' answer

vars == <<now, exch, cfgStart, symbols, intervals, series, candles, indicators,
          known_gaps, txOpen, txSnap, op, pc, dryRun, start, endClosed, cursor,
          req, klines, candleWrite, indicWrite, phase, first, gaps, gi, nullSpans, si,
          deletes, runInfo, runSnap, lastRun,
          maxConcurrent, active, callerPc, bucket, admitted, retryCfg, call,
          cmd, indIn, indOut>>

\* ---------------------------------------------------------------- utils.ts
Min(a, b) == IF a < b THEN a ELSE b
Max(a, b) == IF a > b THEN a ELSE b

\* Rounding up to the next boundary instead of down.
floorToInterval_up(ms, intervalMs) == ((ms \div intervalMs) + 1) * intervalMs

floorToInterval(ms, intervalMs) == (ms \div intervalMs) * intervalMs

\* ---------------------------------------------------------------- exchange
BarSeq == [i \in 1..(MaxBar + 1) |-> (i - 1) * IntervalMs]
AllBars == {BarSeq[i] : i \in 1..(MaxBar + 1)}

Kline(t) == [openTime |-> t, close |-> 1]

\* GET /api/v3/klines: the first `limit` bars with startTime <= openTime <= endTime,
\* ascending.  The exchange also serves the bar that is still forming.
ExchangeAnswer(startTime, endTime, limit) ==
  LET avail == SelectSeq(BarSeq, LAMBDA t : t \in exch /\ t >= startTime
                                            /\ t <= endTime /\ t <= now)
  IN  [i \in 1..Min(limit, Len(avail)) |-> Kline(avail[i])]

\* ---------------------------------------------------------------- indicators.ts
IndicatorFields == {"ema50", "ema200", "rsi14", "atr14", "adx14", "vol_ma20", "macd",
                    "macd_signal", "macd_hist", "bb_sma20", "bb_upper", "bb_lower",
                    "pct_return_1", "log_return_1"}

\* Whether the kernel of field f leaves index i of its output null.
FieldIsNull(f, i) ==
  CASE f = "ema50"        -> i < 50 - 1
    [] f = "ema200"       -> i < 200 - 1
    [] f = "rsi14"        -> i < 14
    [] f = "atr14"        -> i < 14 - 1
    [] f = "adx14"        -> i < 14 + 14 - 1
    [] f = "vol_ma20"     -> i < 20 - 1
    [] f = "macd"         -> i < 26 - 1
    [] f = "macd_signal"  -> i < 9 - 1
    [] f = "macd_hist"    -> i < 26 - 1
    [] f = "bb_sma20"     -> i < 20 - 1
    [] f = "bb_upper"     -> i < 20 - 1
    [] f = "bb_lower"     -> i < 20 - 1
    [] f = "pct_return_1" -> i < 1
    [] f = "log_return_1" -> i < 1

\* One abstract value per bar of the series: the window and the position in it.
computeIndicators(ohlcv) ==
  [i \in 1..Len(ohlcv) |-> [first |-> ohlcv[1].time, idx |-> i - 1]]

\* ---------------------------------------------------------------- db.ts
SameKey(a, b) == a.series_id = b.series_id /\ a.open_time = b.open_time

\* INSERT ... ON CONFLICT(series_id, open_time) DO UPDATE SET <every other column>
\* A plain INSERT, without the ON CONFLICT clause and without the primary key.
UpsertRow_insert(table, r) == table \cup {r}

UpsertRow(table, r) == {x \in table : ~SameKey(x, r)} \cup {r}

RECURSIVE UpsertAll(_, _)
UpsertAll(table, rows) ==
  IF rows = <<>> THEN table ELSE UpsertAll(UpsertRow(table, Head(rows)), Tail(rows))

upsertCandles(table, rows) == UpsertAll(table, rows)
upsertIndicators(table, rows) == UpsertAll(table, rows)

NextId(table) == IF table = {} THEN 1
                 ELSE 1 + (CHOOSE m \in {x.id : x \in table} : \A x \in table : x.id <= m)

ensureSymbol(table, symbol, base, quote) ==
  IF \E x \in table : x.symbol = symbol
  THEN {IF x.symbol = symbol THEN [x EXCEPT !.base_asset = base, !.quote_asset = quote]
        ELSE x : x \in table}
  ELSE table \cup {[id |-> NextId(table), symbol |-> symbol,
                    base_asset |-> base, quote_asset |-> quote]}

ensureInterval(table, code, ms) ==
  IF \E x \in table : x.code = code
  THEN {IF x.code = code THEN [x EXCEPT !.ms = ms] ELSE x : x \in table}
  ELSE table \cup {[id |-> NextId(table), code |-> code, ms |-> ms]}

ensureSeries(table, symbolId, intervalId) ==
  IF \E x \in table : x.symbol_id = symbolId /\ x.interval_id = intervalId
  THEN table
  ELSE table \cup {[id |-> NextId(table), symbol_id |-> symbolId,
                    interval_id |-> intervalId]}

SymbolId(table, symbol) == (CHOOSE x \in table : x.symbol = symbol).id
IntervalId(table, code) == (CHOOSE x \in table : x.code = code).id
SeriesId(table, symbolId, intervalId) ==
  (CHOOSE x \in table : x.symbol_id = symbolId /\ x.interval_id = intervalId).id

OpenTimes(table, seriesId) == {x.open_time : x \in {y \in table : y.series_id = seriesId}}

\* A resume point that lies two bars past the overlap of the last stored bar.
getMaxOpenTime_late(table, seriesId) ==
  IF OpenTimes(table, seriesId) = {} THEN NULL
  ELSE (CHOOSE t \in OpenTimes(table, seriesId) : \A u \in OpenTimes(table, seriesId) : u <= t)
         + (OVERLAP_BARS + 2) * IntervalMs

getMaxOpenTime(table, seriesId) ==
  LET ts == OpenTimes(table, seriesId)
  IN  IF ts = {} THEN NULL ELSE CHOOSE m \in ts : \A t \in ts : t <= m

\* deleteRange: both tables lose the rows with open_time BETWEEN from AND to.
deleteRange(table, seriesId, fromInclusive, toInclusive) ==
  {x \in table : ~(x.series_id = seriesId /\ x.open_time >= fromInclusive
                   /\ x.open_time <= toInclusive)}

\* SELECT open_time FROM candles WHERE series_id = ? ORDER BY open_time ASC
RECURSIVE SortAsc(_)
SortAsc(S) ==
  IF S = {} THEN <<>>
  ELSE LET m == CHOOSE x \in S : \A y \in S : x <= y
       IN  <<m>> \o SortAsc(S \ {m})

SelectTimes(table, seriesId) == SortAsc(OpenTimes(table, seriesId))

\* ---------------------------------------------------------------- verify.ts, repair.ts
AllNull(r) == \A f \in IndicatorFields : FieldIsNull(f, r.idx)

\* SELECT open_time FROM indicators WHERE series_id = ? AND open_time > ? AND <all 14 NULL>
SelectNullRows(table, seriesId, warmupCut) ==
  {r.open_time : r \in {x \in table : x.series_id = seriesId /\ x.open_time > warmupCut
                                       /\ AllNull(x)}}

GapAt(sortedTimes, i, step) ==
  LET prev == sortedTimes[i - 1]
      next == sortedTimes[i]
      diff == next - prev
  IN  [startMissing |-> prev + step, endMissing |-> next - step,
       missingBars |-> (diff \div step) - 1]

verify_findGaps_inclusive(sortedTimes, step) ==
  LET at == SelectSeq([k \in 1..(Len(sortedTimes) - 1) |-> k + 1],
                      LAMBDA i : sortedTimes[i] - sortedTimes[i - 1] > step)
  IN  [j \in 1..Len(at) |-> [GapAt(sortedTimes, at[j], step) EXCEPT !.missingBars = @ + 1]]

verify_findGaps(sortedTimes, step) ==
  LET at == SelectSeq([k \in 1..(Len(sortedTimes) - 1) |-> k + 1],
                      LAMBDA i : sortedTimes[i] - sortedTimes[i - 1] > step)
  IN  [j \in 1..Len(at) |-> GapAt(sortedTimes, at[j], step)]

repair_findGaps(sortedTimes, step) ==
  LET at == SelectSeq([k \in 1..(Len(sortedTimes) - 1) |-> k + 1],
                      LAMBDA i : /\ sortedTimes[i] - sortedTimes[i - 1] > step
                                 /\ GapAt(sortedTimes, i, step).missingBars
                                      >= MIN_GAP_BARS_TO_REPAIR)
  IN  [j \in 1..Len(at) |-> GapAt(sortedTimes, at[j], step)]

RECURSIVE mergeLoop(_, _, _, _, _, _)
mergeLoop(times, i, s, p, out, step) ==
  IF i > Len(times) THEN Append(out, [start |-> s, end |-> p])
  ELSE LET t == times[i]
       IN  IF t = p + step THEN mergeLoop(times, i + 1, s, t, out, step)
           ELSE mergeLoop(times, i + 1, t, t, Append(out, [start |-> s, end |-> p]), step)

mergeContiguous(times, step) ==
  IF Len(times) = 0 THEN <<>> ELSE mergeLoop(times, 2, times[1], times[1], <<>>, step)

\* ---------------------------------------------------------------- pipeline.ts
mapToRows(seriesId, kl) ==
  [i \in 1..Len(kl) |-> [series_id |-> seriesId, open_time |-> kl[i].openTime,
                         close |-> kl[i].close]]

mapToOHLCV(kl) == [i \in 1..Len(kl) |-> [time |-> kl[i].openTime, close |-> kl[i].close]]

IndicatorRow(seriesId, t, v) ==
  [series_id |-> seriesId, open_time |-> t, first |-> v.first, idx |-> v.idx]

NoSummary == [kind |-> "none"]
NoInfo == [prevOp |-> "none", floorNow |-> 0, emptyAtStart |-> FALSE]
NoRun == [op |-> "none", ok |-> FALSE, dryRun |-> FALSE, start |-> 0, endClosed |-> 0,
          floorNow |-> 0, prevOp |-> "none", emptyAtStart |-> FALSE, unchanged |-> FALSE,
          gaps |-> <<>>, summary |-> NoSummary]
NoReq == [startTime |-> 0, endTime |-> 0, limit |-> 0]

TheSeriesId == SeriesId(series, SymbolId(symbols, Symbol), IntervalId(intervals, Interval))

\* ---------------------------------------------------------------------------
\* The HTTP client's rate limiter (binance.ts).  Times are in milliseconds, as in
\* the code.  The bucket's tokens are kept multiplied by MINUTE_MS, so that the
\* refill "delta * tokensPerMinute / 60000" is exact integer arithmetic: a
\* whole token is MINUTE_MS units.  Floating-point rounding is not modelled.
\* ---------------------------------------------------------------------------
MINUTE_MS == 60000
TAKE_POLL_MS == 100
GATE_POLL_MS == 10

MaxCallers == 2
CallerIds == 1..MaxCallers

TokenBucket(tokensPerMinute, t) ==
  [capacity |-> tokensPerMinute * MINUTE_MS, tokens |-> tokensPerMinute * MINUTE_MS,
   refillPerMinute |-> tokensPerMinute, lastRefill |-> t]

\* refill without its guard on delta.
refill_signed(b, t) ==
  LET delta == t - b.lastRefill
  IN  [b EXCEPT !.tokens = Min(b.capacity, b.tokens + delta * b.refillPerMinute),
                !.lastRefill = t]

refill(b, t) ==
  LET delta == t - b.lastRefill
  IN  IF delta <= 0 THEN b
      ELSE [b EXCEPT !.tokens = Min(b.capacity, b.tokens + delta * b.refillPerMinute),
                     !.lastRefill = t]

\* One pass of take()'s loop body up to its return or its sleep.
HasToken(b) == b.tokens >= MINUTE_MS
TakeToken(b) == [b EXCEPT !.tokens = @ - MINUTE_MS]

IdleCaller == [pc |-> "idle", wakeAt |-> 0]
\* cfg.rateLimit.retry and cfg.http.timeoutMs as the README's config sets them.
RETRY_BASE_MS == 500
RETRY_MAX_MS == 60000
HTTP_TIMEOUT_MS == 15000
RetryCfg(n) == [baseMs |-> RETRY_BASE_MS, maxMs |-> RETRY_MAX_MS, maxRetries |-> n]

\* One getKlines call: the await it is suspended at, the retry loop's attempt
\* counter, the times its requests were sent, the responses they got, the
\* timer it sleeps on and how it ended.
NoCall == [pc |-> "idle", attempt |-> 0, sends |-> <<>>, resps |-> <<>>, wakeAt |-> 0,
           pending |-> "none", outcome |-> "none", result |-> "none"]
NoCmd == [name |-> "none", list |-> <<>>, dry |-> FALSE, idx |-> 0, status |-> "idle"]
NoRetry == RetryCfg(0)

\* computeIndicators not yet called.
NoOut == [f \in IndicatorFields |-> <<>>]

\* The client, the CLI loop and the indicator kernels at rest.
InitSide ==
  /\ maxConcurrent = 1 /\ active = 0 /\ callerPc = [c \in CallerIds |-> IdleCaller]
  /\ bucket = TokenBucket(1, 0) /\ admitted = 0
  /\ retryCfg = NoRetry /\ call = NoCall
  /\ cmd = NoCmd
  /\ indIn = <<>> /\ indOut = NoOut

InitPipeline ==
  /\ now = 0
  /\ \E H \in SUBSET AllBars : Cardinality(H) <= MaxHoles /\ exch = AllBars \ H
  /\ cfgStart \in StartDates
  /\ symbols = {} /\ intervals = {} /\ series = {}
  /\ candles = {} /\ indicators = {} /\ known_gaps = {}
  /\ txOpen = FALSE /\ txSnap = <<{}, {}>>
  /\ op = "idle" /\ pc = "idle" /\ dryRun = FALSE
  /\ start = 0 /\ endClosed = 0 /\ cursor = 0
  /\ req = NoReq /\ klines = <<>> /\ candleWrite = <<>> /\ indicWrite = <<>>
  /\ phase = "" /\ first = 0 /\ gaps = <<>> /\ gi = 0 /\ nullSpans = <<>> /\ si = 0
  /\ deletes = 0
  /\ runInfo = NoInfo /\ runSnap = <<{}, {}>> /\ lastRun = NoRun

Init == InitPipeline /\ InitSide

storeVars == <<symbols, intervals, series, candles, indicators, known_gaps>>
metaVars == <<symbols, intervals, series>>
envVars == <<now, exch, cfgStart>>
repairVars == <<phase, first, gaps, gi, nullSpans, si>>
localVars == <<start, endClosed, cursor, req, klines, candleWrite, indicWrite, repairVars>>
obsVars == <<deletes, runInfo, runSnap, lastRun>>
clientVars == <<maxConcurrent, active, callerPc, bucket, admitted, retryCfg, call>>
kernelVars == <<indIn, indOut>>
sideVars == <<clientVars, cmd, kernelVars>>

\* The clock advances while the process is idle or suspended in an await.
Tick ==
  /\ pc \in {"idle", "await"}
  /\ now < MaxNow
  /\ now' = now + 1
  /\ UNCHANGED <<exch, cfgStart, storeVars, txOpen, txSnap, op, pc, dryRun, localVars, obsVars,
                 sideVars>>

\* A command that starts right after another one completed, neither of them a dry run,
\* with the same floor(now, ms): the pairs the idempotence statements are about.
Chained(dry) ==
  /\ lastRun.op \in {"bootstrap", "update", "repair"} /\ lastRun.ok /\ ~lastRun.dryRun /\ ~dry
  /\ lastRun.floorNow = floorToInterval(now, IntervalMs)

\* A command that starts after a bootstrap of an empty store that was interrupted (a
\* rejected fetch or a storage error) once it had committed at least one chunk.
Resumes(dry) ==
  /\ lastRun.op = "bootstrap" /\ ~lastRun.ok /\ ~lastRun.dryRun /\ lastRun.emptyAtStart
  /\ candles # {} /\ ~dry

\* What a starting command records for the statements about pairs of commands.
Observe(dry) ==
  /\ runInfo' = [prevOp |-> IF Chained(dry) THEN lastRun.op
                            ELSE IF Resumes(dry) THEN "interrupted" ELSE "none",
                 floorNow |-> floorToInterval(now, IntervalMs),
                 emptyAtStart |-> (symbols = {} /\ intervals = {} /\ series = {}
                                   /\ candles = {} /\ indicators = {})]
  /\ runSnap' = IF Chained(dry) THEN <<candles, indicators>> ELSE <<{}, {}>>
  /\ lastRun' = NoRun

RunRecord(o, ok, c, ind, summary) ==
  [op |-> o, ok |-> ok, dryRun |-> dryRun, start |-> start, endClosed |-> endClosed,
   floorNow |-> runInfo.floorNow, prevOp |-> runInfo.prevOp,
   emptyAtStart |-> runInfo.emptyAtStart,
   unchanged |-> (runInfo.prevOp # "none" /\ runSnap = <<c, ind>>),
   gaps |-> gaps, summary |-> summary]

\* db.close() in the finally block: the command is over, with data tables c and ind.
Finish(o, ok, c, ind, summary) ==
  /\ op' = "idle" /\ pc' = "idle"
  /\ lastRun' = RunRecord(o, ok, c, ind, summary)
  /\ runInfo' = NoInfo
  /\ runSnap' = <<{}, {}>>
  /\ dryRun' = FALSE
  /\ start' = 0 /\ endClosed' = 0 /\ cursor' = 0
  /\ req' = NoReq /\ klines' = <<>> /\ candleWrite' = <<>> /\ indicWrite' = <<>>
  /\ phase' = "" /\ first' = 0 /\ gaps' = <<>> /\ gi' = 0 /\ nullSpans' = <<>> /\ si' = 0
  /\ UNCHANGED deletes

\* A db.tx that returns with its transaction still open.
txEnd_open(dry) ==
  /\ txOpen' = TRUE
  /\ UNCHANGED <<txSnap, candles, indicators>>

\* A db.tx that commits whatever dryRun says.
txEnd_commit(dry) ==
  /\ txOpen' = FALSE
  /\ txSnap' = <<{}, {}>>
  /\ UNCHANGED <<candles, indicators>>

\* db.tx after fn returned: ROLLBACK under dryRun, COMMIT otherwise.
txEnd(dry) ==
  /\ txOpen' = FALSE
  /\ txSnap' = <<{}, {}>>
  /\ IF dry = TRUE
     THEN candles' = txSnap[1] /\ indicators' = txSnap[2]
     ELSE UNCHANGED <<candles, indicators>>

\* A rollback that restores the indicators only.
txRollback_keepCandles ==
  /\ txOpen' = FALSE
  /\ txSnap' = <<{}, {}>>
  /\ UNCHANGED candles /\ indicators' = txSnap[2]

\* db.tx when fn throws: ROLLBACK and rethrow.
txRollback ==
  /\ txOpen' = FALSE
  /\ txSnap' = <<{}, {}>>
  /\ candles' = txSnap[1] /\ indicators' = txSnap[2]

\* db.tx up to the call of fn: BEGIN IMMEDIATE.
txBegin ==
  /\ txOpen' = TRUE
  /\ txSnap' = <<candles, indicators>>

\* ---------------------------------------------------------------- bootstrapSeries, updateSeries
\* Every fetched row is written, the overlap rows included.
writeIndices_all(rowsAll, cur) == [i \in 1..Len(rowsAll) |-> i]

\* The filter with > in place of >=: the bar at the cursor is dropped.
writeIndices_strict(rowsAll, cur) ==
  SelectSeq([i \in 1..Len(rowsAll) |-> i], LAMBDA i : rowsAll[i].open_time > cur)

\* for (i ...) if (rowsAll[i].open_time >= cursor) writeIndices.push(i)
writeIndices(rowsAll, cur) ==
  SelectSeq([i \in 1..Len(rowsAll) |-> i], LAMBDA i : rowsAll[i].open_time >= cur)

\* The function up to the loop head.
IngestBegin(o, dry) ==
  /\ op = "idle"
  /\ op' = o /\ dryRun' = dry
  /\ Observe(dry)
  /\ symbols' = ensureSymbol(symbols, Symbol, "BTC", "USDT")
  /\ intervals' = ensureInterval(intervals, Interval, IntervalMs)
  /\ series' = ensureSeries(series, SymbolId(symbols', Symbol), IntervalId(intervals', Interval))
  /\ LET seriesId == SeriesId(series', SymbolId(symbols', Symbol), IntervalId(intervals', Interval))
         maxOpen == getMaxOpenTime(candles, seriesId)
         s == IF o = "bootstrap" \/ maxOpen = NULL THEN cfgStart
              ELSE Max(cfgStart, maxOpen - OVERLAP_BARS * IntervalMs)
     IN  /\ start' = s
         /\ cursor' = s
  /\ endClosed' = floorToInterval(now, IntervalMs) - 1
  /\ pc' = "loop"
  /\ UNCHANGED <<envVars, candles, indicators, known_gaps, txOpen, txSnap,
                 req, klines, candleWrite, indicWrite, repairVars, deletes>>

IngestStart(o, dry) == IngestBegin(o, dry) /\ UNCHANGED sideVars

\* while (cursor <= endClosed) { ... await client.getKlines(...)
IngestRequest(o) ==
  /\ op = o /\ pc = "loop"
  /\ cursor <= endClosed
  /\ LET fetchEnd == Min(endClosed, cursor + IntervalMs * (MAX_API_LIMIT - 1))
         overlapStart == Max(start, cursor - OVERLAP_BARS * IntervalMs)
     IN  req' = [startTime |-> overlapStart, endTime |-> fetchEnd, limit |-> MAX_API_LIMIT]
  /\ pc' = "await"
  /\ UNCHANGED <<envVars, sideVars, storeVars, txOpen, txSnap, op, dryRun, start, endClosed, cursor,
                 klines, candleWrite, indicWrite, repairVars, obsVars>>

\* The response arrives; the chunk is prepared and db.tx issues BEGIN IMMEDIATE.
IngestResponse(o) ==
  /\ op = o /\ pc = "await"
  /\ LET kl == ExchangeAnswer(req.startTime, req.endTime, req.limit)
     IN  /\ klines' = kl
         /\ IF Len(kl) = 0
            THEN /\ cursor' = cursor + IntervalMs
                 /\ pc' = "loop"
                 /\ UNCHANGED <<candleWrite, indicWrite, txOpen, txSnap>>
            ELSE LET ohlcvAll == mapToOHLCV(kl)
                     indAll == computeIndicators(ohlcvAll)
                     rowsAll == mapToRows(TheSeriesId, kl)
                     wi == writeIndices(rowsAll, cursor)
                 IN  /\ candleWrite' = [j \in 1..Len(wi) |-> rowsAll[wi[j]]]
                     /\ indicWrite' = [j \in 1..Len(wi) |->
                                         IndicatorRow(TheSeriesId, ohlcvAll[wi[j]].time,
                                                      indAll[wi[j]])]
                     /\ txBegin
                     /\ pc' = "tx_candles"
                     /\ UNCHANGED cursor
  /\ UNCHANGED <<envVars, sideVars, storeVars, op, dryRun, start, endClosed, req, repairVars, obsVars>>

\* getKlines rejects (retries exhausted or a permanent error): the command ends.
IngestFetchError(o) ==
  /\ op = o /\ pc = "await"
  /\ Finish(o, FALSE, candles, indicators, [kind |-> "fetch_error"])
  /\ UNCHANGED <<envVars, sideVars, storeVars, txOpen, txSnap>>

\* fn of db.tx: if (candleWrite.length > 0) { upsertCandles; upsertIndicators }
IngestTxCandles(o) ==
  /\ op = o /\ pc = "tx_candles"
  /\ candles' = IF Len(candleWrite) > 0 THEN upsertCandles(candles, candleWrite) ELSE candles
  /\ pc' = "tx_indicators"
  /\ UNCHANGED <<envVars, sideVars, metaVars, indicators, known_gaps, txOpen, txSnap, op, dryRun,
                 localVars, obsVars>>

IngestTxIndicators(o) ==
  /\ op = o /\ pc = "tx_indicators"
  /\ indicators' = IF Len(candleWrite) > 0 THEN upsertIndicators(indicators, indicWrite)
                   ELSE indicators
  /\ pc' = "tx_end"
  /\ UNCHANGED <<envVars, sideVars, metaVars, candles, known_gaps, txOpen, txSnap, op, dryRun,
                 localVars, obsVars>>

IngestTxEnd_stuck(o) ==
  /\ op = o /\ pc = "tx_end"
  /\ txEnd(dryRun)
  /\ LET advancedBars == Len(candleWrite)
     IN  cursor' = cursor + advancedBars * IntervalMs
  /\ pc' = "loop"
  /\ UNCHANGED <<envVars, sideVars, metaVars, known_gaps, op, dryRun, start, endClosed,
                 req, klines, candleWrite, indicWrite, repairVars, obsVars>>

IngestTxEnd(o) ==
  /\ op = o /\ pc = "tx_end"
  /\ txEnd(dryRun)
  /\ LET advancedBars == Len(candleWrite)
     IN  cursor' = IF advancedBars > 0 THEN cursor + advancedBars * IntervalMs
                   ELSE cursor + IntervalMs
  /\ pc' = "loop"
  /\ UNCHANGED <<envVars, sideVars, metaVars, known_gaps, op, dryRun, start, endClosed,
                 req, klines, candleWrite, indicWrite, repairVars, obsVars>>

\* A statement inside the transaction throws (a storage error).
IngestTxThrow(o) ==
  /\ op = o /\ pc \in {"tx_candles", "tx_indicators", "tx_end"}
  /\ txRollback
  /\ Finish(o, FALSE, txSnap[1], txSnap[2], [kind |-> "tx_error"])
  /\ UNCHANGED <<envVars, sideVars, metaVars, known_gaps>>

IngestExit(o) ==
  /\ op = o /\ pc = "loop"
  /\ cursor > endClosed
  /\ Finish(o, TRUE, candles, indicators, NoSummary)
  /\ UNCHANGED <<envVars, sideVars, storeVars, txOpen, txSnap>>

\* The steps of bootstrapSeries / updateSeries after its first.
IngestSteps(o) ==
  \/ IngestRequest(o)
  \/ IngestResponse(o)
  \/ IngestFetchError(o)
  \/ IngestTxCandles(o)
  \/ IngestTxIndicators(o)
  \/ IngestTxEnd(o)
  \/ IngestTxThrow(o)
  \/ IngestExit(o)

bootstrapSeries ==
  \/ \E dry \in BOOLEAN : IngestStart("bootstrap", dry)
  \/ IngestSteps("bootstrap")

updateSeries ==
  \/ \E dry \in BOOLEAN : IngestStart("update", dry)
  \/ IngestSteps("update")

\* ---------------------------------------------------------------- verify.ts
\* The one row of: series JOIN symbols JOIN intervals.
Meta ==
  LET m == CHOOSE x \in series : TRUE
  IN  [id |-> m.id, intervalMs |-> (CHOOSE i \in intervals : i.id = m.interval_id).ms]

\* The orders in which a query without ORDER BY may return the rows S.
Orders(S) ==
  {q \in [1..Cardinality(S) -> S] : \A i, j \in 1..Cardinality(S) : i # j => q[i] # q[j]}

\* The rows of verify's null-indicator query (no row without a series or a candle).
VerifyNullRows ==
  IF series = {} \/ OpenTimes(candles, Meta.id) = {} THEN {}
  ELSE SelectNullRows(indicators, Meta.id,
                      SelectTimes(candles, Meta.id)[1] + IGNORE_NULL_WARMUP_BARS * Meta.intervalMs)

\* The series_summary line of runVerify (or series_empty), the null-indicator query
\* having returned its rows in the order nullRows.
VerifySummary(nullRows) ==
  LET times == SelectTimes(candles, Meta.id)
  IN  IF Len(times) = 0 THEN [kind |-> "series_empty"]
      ELSE [kind |-> "series_summary",
            count |-> Len(times),
            gaps |-> verify_findGaps(times, Meta.intervalMs),
            nullSpans |-> mergeContiguous(nullRows, Meta.intervalMs)]

runVerify_clearing ==
  /\ op = "idle"
  /\ \E nullRows \in Orders(VerifyNullRows) :
       lastRun' = [NoRun EXCEPT !.op = "verify", !.ok = TRUE,
                                !.floorNow = floorToInterval(now, IntervalMs),
                                !.summary = IF series = {} THEN NoSummary
                                            ELSE VerifySummary(nullRows)]
  /\ known_gaps' = {}
  /\ UNCHANGED <<envVars, sideVars, metaVars, candles, indicators, txOpen, txSnap, op, pc,
                 dryRun, localVars, deletes, runInfo, runSnap>>

runVerify ==
  /\ op = "idle"
  /\ \E thrown \in BOOLEAN, nullRows \in Orders(VerifyNullRows) :
       lastRun' = IF thrown
                  THEN [NoRun EXCEPT !.op = "verify", !.ok = FALSE,
                                     !.floorNow = floorToInterval(now, IntervalMs),
                                     !.summary = [kind |-> "verify_error"]]
                  ELSE [NoRun EXCEPT !.op = "verify", !.ok = TRUE,
                                     !.floorNow = floorToInterval(now, IntervalMs),
                                     !.summary = IF series = {} THEN NoSummary
                                                 ELSE VerifySummary(nullRows)]
  /\ UNCHANGED <<envVars, sideVars, storeVars, txOpen, txSnap, op, pc, dryRun, localVars,
                 deletes, runInfo, runSnap>>

\* ---------------------------------------------------------------- outside the commands
\* deleteRange, called on the store between two commands.
DeleteRange(fromInclusive, toInclusive) ==
  /\ op = "idle" /\ deletes < MaxDeletes
  /\ series # {}
  /\ \E x \in candles \cup indicators :
       x.open_time >= fromInclusive /\ x.open_time <= toInclusive
  /\ indicators' = deleteRange(indicators, Meta.id, fromInclusive, toInclusive)
  /\ candles' = deleteRange(candles, Meta.id, fromInclusive, toInclusive)
  /\ deletes' = deletes + 1
  /\ lastRun' = NoRun
  /\ UNCHANGED <<envVars, sideVars, metaVars, known_gaps, txOpen, txSnap, op, pc, dryRun, localVars,
                 runInfo, runSnap>>

\* An administrator records a window of missing bars in the known_gaps registry.
RegisterKnownGap ==
  /\ op = "idle" /\ Cardinality(known_gaps) < MaxKnownGaps
  /\ series # {}
  /\ LET found == verify_findGaps(SelectTimes(candles, Meta.id), Meta.intervalMs)
     IN  \E i \in 1..Len(found) :
           known_gaps' = known_gaps \cup {[series_id |-> Meta.id,
                                           start_open_time |-> found[i].startMissing,
                                           end_open_time |-> found[i].endMissing]}
  /\ lastRun' = NoRun
  /\ UNCHANGED <<envVars, sideVars, metaVars, candles, indicators, txOpen, txSnap, op, pc, dryRun,
                 localVars, deletes, runInfo, runSnap>>

\* ---------------------------------------------------------------- repair.ts
\* The repair_summary line.
RepairSummary ==
  LET times2 == SelectTimes(candles, Meta.id)
      warmupCut == first + IGNORE_NULL_WARMUP_BARS * Meta.intervalMs
  IN  [kind |-> "repair_summary",
       gaps_remaining |-> Len(repair_findGaps(times2, Meta.intervalMs)),
       null_indicator_rows_remaining |->
         Cardinality(SelectNullRows(indicators, Meta.id, warmupCut))]

\* runRepair up to its first await: the gaps are detected, repairGaps starts on the
\* first one.  With no series, or no candle, there is nothing to do.
RepairStart ==
  /\ op = "idle"
  /\ IF series = {} \/ OpenTimes(candles, Meta.id) = {}
     THEN /\ lastRun' = [NoRun EXCEPT !.op = "repair", !.ok = TRUE,
                                      !.floorNow = floorToInterval(now, IntervalMs)]
          /\ UNCHANGED <<op, pc, localVars, runInfo, runSnap>>
     ELSE LET times == SelectTimes(candles, Meta.id)
              found == repair_findGaps(times, Meta.intervalMs)
          IN  /\ op' = "repair"
              /\ Observe(FALSE)
              /\ first' = times[1]
              /\ gaps' = found
              /\ nullSpans' = <<>> /\ si' = 0
              /\ IF Len(found) > 0
                 THEN /\ phase' = "gaps" /\ gi' = 1 /\ pc' = "loop"
                      /\ cursor' = found[1].startMissing - OVERLAP_BARS * Meta.intervalMs
                 ELSE /\ phase' = "nulls" /\ gi' = 0 /\ pc' = "detect"
                      /\ UNCHANGED cursor
              /\ UNCHANGED <<start, endClosed, req, klines, candleWrite, indicWrite>>
  /\ UNCHANGED <<envVars, sideVars, storeVars, txOpen, txSnap, dryRun, deletes>>

\* The window [from, to] of the gap or null span being repaired.
WindowTo ==
  IF phase = "gaps" THEN gaps[gi].endMissing + OVERLAP_BARS * Meta.intervalMs
  ELSE nullSpans[si].end + OVERLAP_BARS * Meta.intervalMs

\* while (cursor <= to) { const fetchEnd = ...; await client.getKlines(...)
RepairRequest(ph) ==
  /\ op = "repair" /\ phase = ph /\ pc = "loop"
  /\ cursor <= WindowTo
  /\ LET fetchEnd == Min(WindowTo, cursor + Meta.intervalMs * (MAX_API_LIMIT - 1))
     IN  req' = [startTime |-> cursor, endTime |-> fetchEnd, limit |-> MAX_API_LIMIT]
  /\ pc' = "await"
  /\ UNCHANGED <<envVars, sideVars, storeVars, txOpen, txSnap, op, dryRun, start, endClosed, cursor,
                 klines, candleWrite, indicWrite, repairVars, obsVars>>

\* Every fetched bar gets an indicator row, computed over the fetched bars alone.
RepairIndicWrite(kl) ==
  LET ohlcv == mapToOHLCV(kl)
      ind == computeIndicators(ohlcv)
  IN  [i \in 1..Len(kl) |-> IndicatorRow(Meta.id, ohlcv[i].time, ind[i])]

\* Every fetched candle row is written, whatever the gap.
gapCandleWrite_all(candleRows, g) == candleRows

\* candleRows.filter(r => r.open_time >= g.startMissing && r.open_time <= g.endMissing)
\* The filter with > in place of >= on the lower edge of the gap.
gapCandleWrite_strict(candleRows, g) ==
  SelectSeq(candleRows, LAMBDA r : r.open_time > g.startMissing /\ r.open_time <= g.endMissing)

gapCandleWrite(candleRows, g) ==
  SelectSeq(candleRows, LAMBDA r : r.open_time >= g.startMissing /\ r.open_time <= g.endMissing)

\* repairGaps: the response; candles are kept for the gap window only.
RepairGapResponse ==
  /\ op = "repair" /\ phase = "gaps" /\ pc = "await"
  /\ LET kl == ExchangeAnswer(req.startTime, req.endTime, req.limit)
         g == gaps[gi]
     IN  /\ klines' = kl
         /\ IF Len(kl) = 0
            THEN /\ cursor' = cursor + Meta.intervalMs
                 /\ pc' = "loop"
                 /\ UNCHANGED <<candleWrite, indicWrite, txOpen, txSnap>>
            ELSE /\ candleWrite' = gapCandleWrite(mapToRows(Meta.id, kl), g)
                 /\ indicWrite' = RepairIndicWrite(kl)
                 /\ txBegin
                 /\ pc' = "tx_candles"
                 /\ UNCHANGED cursor
  /\ UNCHANGED <<envVars, sideVars, storeVars, op, dryRun, start, endClosed, req, repairVars, obsVars>>

\* repairNullSpans: the response; only indicator rows are written.
RepairNullResponse ==
  /\ op = "repair" /\ phase = "nulls" /\ pc = "await"
  /\ LET kl == ExchangeAnswer(req.startTime, req.endTime, req.limit)
     IN  /\ klines' = kl
         /\ IF Len(kl) = 0
            THEN /\ cursor' = cursor + Meta.intervalMs
                 /\ pc' = "loop"
                 /\ UNCHANGED <<candleWrite, indicWrite, txOpen, txSnap>>
            ELSE /\ candleWrite' = <<>>
                 /\ indicWrite' = RepairIndicWrite(kl)
                 /\ txBegin
                 /\ pc' = "tx_indicators"
                 /\ UNCHANGED cursor
  /\ UNCHANGED <<envVars, sideVars, storeVars, op, dryRun, start, endClosed, req, repairVars, obsVars>>

RepairFetchError ==
  /\ op = "repair" /\ pc = "await"
  /\ Finish("repair", FALSE, candles, indicators, [kind |-> "fetch_error"])
  /\ UNCHANGED <<envVars, sideVars, storeVars, txOpen, txSnap>>

\* fn of db.tx in repairGaps: if (candleWrite.length > 0) upsertCandles(...)
RepairTxCandles ==
  /\ op = "repair" /\ pc = "tx_candles"
  /\ candles' = IF Len(candleWrite) > 0 THEN upsertCandles(candles, candleWrite) ELSE candles
  /\ pc' = "tx_indicators"
  /\ UNCHANGED <<envVars, sideVars, metaVars, indicators, known_gaps, txOpen, txSnap, op, dryRun,
                 localVars, obsVars>>

\* ... if (indicWrite.length > 0) upsertIndicators(...)
RepairTxIndicators ==
  /\ op = "repair" /\ pc = "tx_indicators"
  /\ indicators' = IF Len(indicWrite) > 0 THEN upsertIndicators(indicators, indicWrite)
                   ELSE indicators
  /\ pc' = "tx_end"
  /\ UNCHANGED <<envVars, sideVars, metaVars, candles, known_gaps, txOpen, txSnap, op, dryRun,
                 localVars, obsVars>>

\* COMMIT, then cursor += Math.max(1, klines.length) * intervalMs
RepairTxEnd ==
  /\ op = "repair" /\ pc = "tx_end"
  /\ txEnd(FALSE)
  /\ cursor' = cursor + Max(1, Len(klines)) * Meta.intervalMs
  /\ pc' = "loop"
  /\ UNCHANGED <<envVars, sideVars, metaVars, known_gaps, op, dryRun, start, endClosed,
                 req, klines, candleWrite, indicWrite, repairVars, obsVars>>

RepairTxThrow ==
  /\ op = "repair" /\ pc \in {"tx_candles", "tx_indicators", "tx_end"}
  /\ txRollback
  /\ Finish("repair", FALSE, txSnap[1], txSnap[2], [kind |-> "tx_error"])
  /\ UNCHANGED <<envVars, sideVars, metaVars, known_gaps>>

\* for (const g of gaps): the window of this gap is done, on to the next one.
RepairGapNext ==
  /\ op = "repair" /\ phase = "gaps" /\ pc = "loop"
  /\ cursor > WindowTo
  /\ IF gi < Len(gaps)
     THEN /\ gi' = gi + 1
          /\ cursor' = gaps[gi + 1].startMissing - OVERLAP_BARS * Meta.intervalMs
          /\ UNCHANGED <<phase, pc>>
     ELSE /\ phase' = "nulls" /\ pc' = "detect"
          /\ UNCHANGED <<gi, cursor>>
  /\ UNCHANGED <<envVars, sideVars, storeVars, txOpen, txSnap, op, dryRun, start, endClosed,
                 req, klines, candleWrite, indicWrite, first, gaps, nullSpans, si, obsVars>>

\* runRepair after repairGaps: the null spans are detected, past the warm-up of the
\* first candle found at the start.
RepairNullDetect ==
  /\ op = "repair" /\ phase = "nulls" /\ pc = "detect"
  /\ LET warmupCut == first + IGNORE_NULL_WARMUP_BARS * Meta.intervalMs
         nullRows == SortAsc(SelectNullRows(indicators, Meta.id, warmupCut))
         spans == mergeContiguous(nullRows, Meta.intervalMs)
     IN  /\ nullSpans' = spans
         /\ IF Len(spans) > 0
            THEN /\ si' = 1 /\ pc' = "loop"
                 /\ cursor' = spans[1].start - OVERLAP_BARS * Meta.intervalMs
            ELSE /\ pc' = "summary"
                 /\ UNCHANGED <<si, cursor>>
  /\ UNCHANGED <<envVars, sideVars, storeVars, txOpen, txSnap, op, dryRun, start, endClosed,
                 req, klines, candleWrite, indicWrite, phase, first, gaps, gi, obsVars>>

RepairNullNext ==
  /\ op = "repair" /\ phase = "nulls" /\ pc = "loop"
  /\ cursor > WindowTo
  /\ IF si < Len(nullSpans)
     THEN /\ si' = si + 1
          /\ cursor' = nullSpans[si + 1].start - OVERLAP_BARS * Meta.intervalMs
          /\ UNCHANGED pc
     ELSE /\ pc' = "summary"
          /\ UNCHANGED <<si, cursor>>
  /\ UNCHANGED <<envVars, sideVars, storeVars, txOpen, txSnap, op, dryRun, start, endClosed,
                 req, klines, candleWrite, indicWrite, phase, first, gaps, gi, nullSpans,
                 obsVars>>

\* The post-repair summary is logged and the command ends.
RepairFinish ==
  /\ op = "repair" /\ pc = "summary"
  /\ Finish("repair", TRUE, candles, indicators, RepairSummary)
  /\ UNCHANGED <<envVars, sideVars, storeVars, txOpen, txSnap>>

repairGaps ==
  \/ RepairRequest("gaps")
  \/ RepairGapResponse
  \/ RepairTxCandles
  \/ RepairGapNext

repairNullSpans ==
  \/ RepairRequest("nulls")
  \/ RepairNullResponse
  \/ RepairNullNext

runRepair ==
  \/ RepairStart
  \/ repairGaps
  \/ RepairNullDetect
  \/ repairNullSpans
  \/ RepairTxIndicators
  \/ RepairTxEnd
  \/ RepairTxThrow
  \/ RepairFetchError
  \/ RepairFinish

Next ==
  \/ Tick
  \/ bootstrapSeries
  \/ updateSeries
  \/ runVerify
  \/ runRepair
  \/ \E a, b \in AllBars : a <= b /\ DeleteRange(a, b)
  \/ RegisterKnownGap

Spec == Init /\ [][Next]_vars

\* The commands without repair: what bootstrap and update alone do to the store.
NextIngest ==
  \/ Tick
  \/ bootstrapSeries
  \/ updateSeries

SpecIngest == Init /\ [][NextIngest]_vars

\* The commands under a scheduler that keeps running a command in progress:
\* Node resumes an async function whenever the promise it awaits has settled,
\* and every getKlines call settles (it returns or throws).
SpecLive == Init /\ [][Next]_vars /\ WF_vars(op # "idle" /\ Next)

\* ---------------------------------------------------------------- the store alone
\* upsertCandles and upsertIndicators called directly, with any batch of rows over a few
\* keys; a batch may name the same key twice.  candleWrite and indicWrite hold the rows
\* argument of the latest call.
StoreKeys == {<<1, 0>>, <<1, IntervalMs>>, <<2, 0>>}
StoreCandleRows ==
  {[series_id |-> k[1], open_time |-> k[2], close |-> c] : k \in StoreKeys, c \in {1, 2}}
StoreIndicatorRows ==
  {[series_id |-> k[1], open_time |-> k[2], first |-> 0, idx |-> i] : k \in StoreKeys, i \in {0, 1}}
Batches(R) == UNION {[1..n -> R] : n \in 1..MaxBatch}

InitStore == Init /\ exch = AllBars /\ cfgStart = 0

StoreUpsertCandles ==
  /\ \E rows \in Batches(StoreCandleRows) :
       /\ candles' = upsertCandles(candles, rows)
       /\ candleWrite' = rows
  /\ indicWrite' = <<>>
  /\ op' = "upsert_candles"
  /\ UNCHANGED <<envVars, sideVars, metaVars, indicators, known_gaps, txOpen, txSnap, pc, dryRun,
                 start, endClosed, cursor, req, klines, repairVars, obsVars>>

StoreUpsertIndicators ==
  /\ \E rows \in Batches(StoreIndicatorRows) :
       /\ indicators' = upsertIndicators(indicators, rows)
       /\ indicWrite' = rows
  /\ candleWrite' = <<>>
  /\ op' = "upsert_indicators"
  /\ UNCHANGED <<envVars, sideVars, metaVars, candles, known_gaps, txOpen, txSnap, pc, dryRun,
                 start, endClosed, cursor, req, klines, repairVars, obsVars>>

NextStore ==
  \/ StoreUpsertCandles
  \/ StoreUpsertIndicators

SpecStore == InitStore /\ [][NextStore]_vars

\* ---------------------------------------------------------------------------
\* verify alone: runVerify over a store that one bootstrap filled with the bars
\* 0..MaxVerifyBar, from which deleteRange calls then removed any bars and in
\* which later updates or repairs rewrote up to MaxColdRows rows from a cold start.
\* ---------------------------------------------------------------------------
MaxVerifyBar == 7
VerifyBars == {b * IntervalMs : b \in 0..MaxVerifyBar}

\* The indicator values bootstrapSeries stores for the bar at t when it starts at
\* 0 on a fully served exchange: the first chunk holds MAX_API_LIMIT bars, every
\* later one re-fetches OVERLAP_BARS bars and writes the rest.
BootstrapIndicator(t) ==
  LET b == t \div IntervalMs
      k == MAX_API_LIMIT - OVERLAP_BARS
      j == (b - MAX_API_LIMIT) % k
  IN  IF b < MAX_API_LIMIT THEN [first |-> 0, idx |-> b]
      ELSE [first |-> (b - j - OVERLAP_BARS) * IntervalMs, idx |-> OVERLAP_BARS + j]

BootstrapCandles(T) == {mapToRows(1, <<Kline(t)>>)[1] : t \in T}
BootstrapIndicators(T) == {IndicatorRow(1, t, BootstrapIndicator(t)) : t \in T}

\* The row of a bar t that the first chunk of a later update, or a repair chunk,
\* rewrote as the first bar of its window.
MaxColdRows == 3
ColdIndicators(N) == {IndicatorRow(1, t, [first |-> t, idx |-> 0]) : t \in N}

InitVerify ==
  /\ now = IntervalMs * (MaxVerifyBar + 1)
  /\ exch = VerifyBars
  /\ cfgStart = 0
  /\ symbols = ensureSymbol({}, Symbol, "BTC", "USDT")
  /\ intervals = ensureInterval({}, Interval, IntervalMs)
  /\ series = ensureSeries({}, 1, 1)
  /\ \E T \in SUBSET VerifyBars : \E N \in SUBSET T :
       /\ Cardinality(N) <= MaxColdRows
       /\ candles = BootstrapCandles(T)
       /\ indicators = BootstrapIndicators(T \ N) \cup ColdIndicators(N)
  /\ known_gaps = {}
  /\ txOpen = FALSE /\ txSnap = <<{}, {}>>
  /\ op = "idle" /\ pc = "idle" /\ dryRun = FALSE
  /\ start = 0 /\ endClosed = 0 /\ cursor = 0
  /\ req = NoReq /\ klines = <<>> /\ candleWrite = <<>> /\ indicWrite = <<>>
  /\ phase = "" /\ first = 0 /\ gaps = <<>> /\ gi = 0 /\ nullSpans = <<>> /\ si = 0
  /\ deletes = 0
  /\ runInfo = NoInfo /\ runSnap = <<{}, {}>> /\ lastRun = NoRun
  /\ InitSide

NextVerify == runVerify

SpecVerify == InitVerify /\ [][NextVerify]_vars

\* ---------------------------------------------------------------------------
\* RequestScheduler.schedule (binance.ts), called by CallerIds concurrently.
\* JavaScript runs each caller from one await to the next without interruption,
\* so an action is one such stretch.  callerPc[c].pc is the await the caller is
\* suspended at ("idle" before its call, "done" or "failed" after it): "gate_sleep"
\* (sleep(10) of the gate loop), "take_sleep"
\* (sleep(100) inside take()), "taken" (take() has returned, the await on it has
\* not resumed yet), "run" (inside fn()).
\* ---------------------------------------------------------------------------
MaxSchedMs == 300
requestsPerMinute == 600

At(c, p, t) == callerPc' = [callerPc EXCEPT ![c] = [pc |-> p, wakeAt |-> t]]

\* take(): refill, then either take a token and return, or sleep(100).
TakePass(c) ==
  LET b == refill(bucket, now)
  IN  IF HasToken(b)
      THEN bucket' = TakeToken(b) /\ admitted' = admitted + 1 /\ At(c, "taken", now)
      ELSE bucket' = b /\ admitted' = admitted /\ At(c, "take_sleep", now + TAKE_POLL_MS)

\* while (this.active >= this.maxConcurrent) await sleep(10); await this.bucket.take();
GateThenTake(c) ==
  IF active >= maxConcurrent
  THEN At(c, "gate_sleep", now + GATE_POLL_MS) /\ UNCHANGED <<bucket, admitted>>
  ELSE TakePass(c)

schedFrame == <<exch, cfgStart, storeVars, txOpen, txSnap, op, pc, dryRun, localVars, obsVars,
                maxConcurrent, retryCfg, call, cmd, kernelVars>>

SchedCall(c) ==
  /\ callerPc[c].pc = "idle"
  /\ GateThenTake(c)
  /\ UNCHANGED <<schedFrame, now, active>>

SchedGateWake(c) ==
  /\ callerPc[c].pc = "gate_sleep" /\ now >= callerPc[c].wakeAt
  /\ GateThenTake(c)
  /\ UNCHANGED <<schedFrame, now, active>>

SchedTakeWake(c) ==
  /\ callerPc[c].pc = "take_sleep" /\ now >= callerPc[c].wakeAt
  /\ TakePass(c)
  /\ UNCHANGED <<schedFrame, now, active>>

\* this.active += 1; ... await fn()
SchedEnter(c) ==
  /\ callerPc[c].pc = "taken"
  /\ active' = active + 1
  /\ At(c, "run", now)
  /\ UNCHANGED <<schedFrame, now, bucket, admitted>>

\* A gate that is released only when fn resolved.
SchedLeave_onSuccess(c) ==
  /\ callerPc[c].pc = "run"
  /\ \E ok \in BOOLEAN :
       /\ active' = IF ok THEN active - 1 ELSE active
       /\ At(c, IF ok THEN "done" ELSE "failed", now)
  /\ UNCHANGED <<schedFrame, now, bucket, admitted>>

\* fn settles, resolved or rejected: finally { this.active -= 1 }
SchedLeave(c) ==
  /\ callerPc[c].pc = "run"
  /\ \E ok \in BOOLEAN :
       /\ active' = active - 1
       /\ At(c, IF ok THEN "done" ELSE "failed", now)
  /\ UNCHANGED <<schedFrame, now, bucket, admitted>>

\* Time passes until the next timer is due.
Sleepers == {c \in CallerIds : callerPc[c].pc \in {"gate_sleep", "take_sleep"}}
SchedElapse ==
  /\ \E c \in Sleepers :
       /\ callerPc[c].wakeAt > now
       /\ \A d \in Sleepers : callerPc[d].wakeAt > now => callerPc[c].wakeAt <= callerPc[d].wakeAt
       /\ callerPc[c].wakeAt <= MaxSchedMs
       /\ now' = callerPc[c].wakeAt
  /\ \A c \in Sleepers : callerPc[c].wakeAt > now
  /\ UNCHANGED <<schedFrame, active, callerPc, bucket, admitted>>

schedule(c) ==
  \/ SchedCall(c)
  \/ SchedGateWake(c)
  \/ SchedTakeWake(c)
  \/ SchedEnter(c)
  \/ SchedLeave(c)

InitScheduler ==
  /\ InitPipeline /\ exch = AllBars /\ cfgStart = 0
  /\ maxConcurrent \in 1..MaxCallers
  /\ active = 0 /\ callerPc = [c \in CallerIds |-> IdleCaller]
  \* the bucket as earlier requests left it: up to MaxCallers whole tokens
  /\ \E k \in 0..MaxCallers :
       bucket = [TokenBucket(requestsPerMinute, now) EXCEPT !.tokens = k * MINUTE_MS]
  /\ admitted = 0
  /\ retryCfg = NoRetry /\ call = NoCall /\ cmd = NoCmd /\ indIn = <<>> /\ indOut = NoOut

NextScheduler ==
  \/ \E c \in CallerIds : schedule(c)
  \/ SchedElapse

SpecScheduler == InitScheduler /\ [][NextScheduler]_vars

\* ---------------------------------------------------------------------------
\* TokenBucket alone, with a caller always waiting: take() is called again as
\* soon as it has returned.  take() itself takes no time and sleep(100) lasts
\* exactly 100 ms; the bucket is watched during the minute after its creation
\* at time 0.
\* ---------------------------------------------------------------------------
BucketRates == {1, 60}

\* take() finds a token and returns.
BucketTake ==
  /\ now < MINUTE_MS
  /\ HasToken(refill(bucket, now))
  /\ bucket' = TakeToken(refill(bucket, now))
  /\ admitted' = admitted + 1
  /\ UNCHANGED <<schedFrame, now, active, callerPc>>

\* take() finds less than one token and sleeps.
BucketSleep ==
  /\ now < MINUTE_MS
  /\ ~HasToken(refill(bucket, now))
  /\ bucket' = refill(bucket, now)
  /\ now' = now + TAKE_POLL_MS
  /\ UNCHANGED <<schedFrame, admitted, active, callerPc>>

InitBucket ==
  /\ InitPipeline /\ exch = AllBars /\ cfgStart = 0
  /\ maxConcurrent = 1 /\ active = 0 /\ callerPc = [c \in CallerIds |-> IdleCaller]
  /\ \E r \in BucketRates : bucket = TokenBucket(r, now)
  /\ admitted = 0
  /\ retryCfg = NoRetry /\ call = NoCall /\ cmd = NoCmd /\ indIn = <<>> /\ indOut = NoOut

NextBucket ==
  \/ BucketTake
  \/ BucketSleep

SpecBucket == InitBucket /\ [][NextBucket]_vars

\* ---------------------------------------------------------------------------
\* TokenBucket under a wall clock that can be set.  The callers call take()
\* concurrently and again after it returned, up to MaxTakes returns in all.
\* Date.now() may have gone back as well as forward between two passes of
\* take(); sleep(100) runs on the event loop's timer, which the wall clock does
\* not control, so a sleeping caller's next pass may read any clock value.
\* ---------------------------------------------------------------------------
MaxTakes == 3
ClockValues == {0, 100, 1000, 59900, 60000, 120000}

\* One pass of take()'s loop: the first of a call, or the one after a sleep.
ClockTake(c) ==
  /\ callerPc[c].pc \in {"idle", "take_sleep"}
  /\ admitted < MaxTakes
  /\ TakePass(c)
  /\ UNCHANGED <<schedFrame, now, active>>

\* The await on take() resumes; the caller may call take() again.
ClockResume(c) ==
  /\ callerPc[c].pc = "taken"
  /\ At(c, "idle", now)
  /\ UNCHANGED <<schedFrame, now, active, bucket, admitted>>

\* The wall clock moves, forward or backward.
ClockSet ==
  /\ \E t \in ClockValues : t # now /\ now' = t
  /\ UNCHANGED <<schedFrame, active, callerPc, bucket, admitted>>

NextClock ==
  \/ \E c \in CallerIds : ClockTake(c)
  \/ \E c \in CallerIds : ClockResume(c)
  \/ ClockSet

SpecClock == InitBucket /\ [][NextClock]_vars

\* ---------------------------------------------------------------------------
\* BinanceClient.getKlines (binance.ts): one call, already admitted by the
\* scheduler.  A response is "ok", "418", "429", "permanent" (another non-2xx
\* status) or "timeout" (the AbortController fired after timeoutMs).  The
\* Retry-After header is absent (NULL), not a number (NaN) or a number of
\* seconds.  Math.random() is 0 or 1/2.
\* ---------------------------------------------------------------------------
MaxRetries == 2
NaN == -2
RespKinds == {"ok", "418", "429", "permanent", "timeout"}
RetryAfters == {NULL, NaN, 0, 1, 200}
FetchMs == 100
RandomHalves == {0, 1}

clamp(n, lo, hi) == IF n < lo THEN lo ELSE IF n > hi THEN hi ELSE n

Pow2(a) == IF a = 0 THEN 1 ELSE IF a = 1 THEN 2 ELSE IF a = 2 THEN 4 ELSE 8

backoffWaitMs(attempt, retryAfterHeader, rnd) ==
  IF retryAfterHeader # NULL /\ retryAfterHeader # NaN
  THEN clamp(retryAfterHeader * 1000, retryCfg.baseMs, retryCfg.maxMs)
  ELSE LET exp == Min(retryCfg.maxMs, retryCfg.baseMs * Pow2(attempt))
           jitter == (rnd * exp) \div 4
       IN  clamp((exp * 3) \div 4 + jitter, retryCfg.baseMs, retryCfg.maxMs)

klinesFrame == <<exch, cfgStart, storeVars, txOpen, txSnap, op, pc, dryRun, localVars, obsVars,
                 maxConcurrent, active, callerPc, bucket, admitted, retryCfg, cmd, kernelVars>>

\* attempt++; if (attempt > this.retry.maxRetries) throw err;
GiveUp_early(attempt) == attempt >= retryCfg.maxRetries
GiveUp(attempt) == attempt > retryCfg.maxRetries

\* The catch block of the retry loop, entered at time t with error err by the
\* call c.
Catch(c, err, t) ==
  LET a == c.attempt + 1
  IN  IF GiveUp(a)
      THEN call' = [c EXCEPT !.attempt = a, !.pc = "done", !.outcome = "thrown", !.result = err]
      ELSE \E rnd \in RandomHalves :
             call' = [c EXCEPT !.attempt = a, !.pc = "backoff",
                               !.wakeAt = t + backoffWaitMs(a, NULL, rnd)]

\* scheduler.schedule(async () => { let attempt = 0; ... await doReq()
KlinesCall ==
  /\ call.pc = "idle"
  /\ call' = [call EXCEPT !.pc = "fetch", !.sends = <<now>>]
  /\ UNCHANGED <<klinesFrame, now>>

\* doReq from the fetch's answer (or the abort at timeoutMs) to its next await,
\* its return or its throw, and the catch block after a throw.
KlinesResponse ==
  /\ call.pc = "fetch"
  /\ \E kind \in RespKinds, ra \in RetryAfters, rnd \in RandomHalves :
       /\ kind \notin {"418", "429"} => ra = NULL /\ rnd = 0
       /\ LET t == IF kind = "timeout" THEN now + HTTP_TIMEOUT_MS ELSE now + FetchMs
              c == [call EXCEPT !.resps = Append(@, [kind |-> kind, retryAfter |-> ra, at |-> t])]
          IN  /\ now' = t
              /\ IF kind = "ok"
                 THEN call' = [c EXCEPT !.pc = "done", !.outcome = "returned",
                                        !.result = Len(c.resps)]
                 ELSE IF kind \in {"418", "429"}
                 THEN call' = [c EXCEPT !.pc = "ban_sleep", !.pending = kind,
                                        !.wakeAt = t + backoffWaitMs(0, ra, rnd)]
                 ELSE Catch(c, kind, t)
  /\ UNCHANGED klinesFrame

\* await sleep(wait); throw new Error("418") / Error("429")
KlinesBanWake ==
  /\ call.pc = "ban_sleep"
  /\ now' = call.wakeAt
  /\ Catch([call EXCEPT !.pending = "none"], call.pending, call.wakeAt)
  /\ UNCHANGED klinesFrame

\* A retry that goes back through the bucket before its request.
KlinesBackoffWake_retake ==
  /\ call.pc = "backoff"
  /\ now' = call.wakeAt
  /\ call' = [call EXCEPT !.pc = "fetch", !.sends = Append(@, call.wakeAt)]
  /\ bucket' = TakeToken(bucket) /\ admitted' = admitted + 1
  /\ UNCHANGED <<exch, cfgStart, storeVars, txOpen, txSnap, op, pc, dryRun, localVars, obsVars,
                 maxConcurrent, active, callerPc, retryCfg, cmd, kernelVars>>

\* await sleep(wait) in the catch block, then the next doReq()
KlinesBackoffWake ==
  /\ call.pc = "backoff"
  /\ now' = call.wakeAt
  /\ call' = [call EXCEPT !.pc = "fetch", !.sends = Append(@, call.wakeAt)]
  /\ UNCHANGED klinesFrame

InitKlines ==
  /\ InitPipeline /\ exch = AllBars /\ cfgStart = 0
  /\ maxConcurrent = 1 /\ active = 0 /\ callerPc = [c \in CallerIds |-> IdleCaller]
  /\ bucket = TokenBucket(requestsPerMinute, now) /\ admitted = 0
  /\ \E n \in 0..MaxRetries : retryCfg = RetryCfg(n)
  /\ call = NoCall /\ cmd = NoCmd /\ indIn = <<>> /\ indOut = NoOut

getKlines ==
  \/ KlinesCall
  \/ KlinesResponse
  \/ KlinesBanWake
  \/ KlinesBackoffWake

SpecKlines == InitKlines /\ [][getKlines]_vars

\* ---------------------------------------------------------------------------
\* getKlines through the scheduler: the caller KlinesCaller runs the retry
\* loop as the fn of its schedule() call, the other callers schedule a
\* function that only settles.  The gate has one slot (maxConcurrent = 1) and
\* the configuration allows up to MaxAdmitRetries retries.
\* ---------------------------------------------------------------------------
KlinesCaller == CHOOSE c \in CallerIds : \A d \in CallerIds : c <= d
OtherCallers == CallerIds \ {KlinesCaller}
admitFrame == <<exch, cfgStart, storeVars, txOpen, txSnap, op, pc, dryRun, localVars, obsVars,
                maxConcurrent, retryCfg, cmd, kernelVars>>

\* this.active += 1; fn() runs to the fetch of its first doReq()
KlinesEnter ==
  /\ callerPc[KlinesCaller].pc = "taken" /\ call.pc = "idle"
  /\ active' = active + 1
  /\ At(KlinesCaller, "run", now)
  /\ call' = [call EXCEPT !.pc = "fetch", !.sends = <<now>>]
  /\ UNCHANGED <<admitFrame, now, bucket, admitted>>

\* the retry loop returned or threw: finally { this.active -= 1 }
KlinesSettle ==
  /\ callerPc[KlinesCaller].pc = "run" /\ call.pc = "done"
  /\ active' = active - 1
  /\ At(KlinesCaller, IF call.outcome = "returned" THEN "done" ELSE "failed", now)
  /\ UNCHANGED <<admitFrame, now, bucket, admitted, call>>

\* Time passes until the next timer of a caller waiting for admission is due;
\* admission is watched for MaxAdmitMs.
MaxAdmitMs == 100
MaxAdmitRetries == 1
AdmitElapse ==
  /\ \E c \in Sleepers :
       /\ callerPc[c].wakeAt > now
       /\ \A d \in Sleepers : callerPc[d].wakeAt > now => callerPc[c].wakeAt <= callerPc[d].wakeAt
       /\ callerPc[c].wakeAt <= MaxAdmitMs
       /\ now' = callerPc[c].wakeAt
  /\ \A c \in Sleepers : callerPc[c].wakeAt > now
  /\ UNCHANGED <<schedFrame, active, callerPc, bucket, admitted>>

InitAdmit ==
  /\ InitPipeline /\ exch = AllBars /\ cfgStart = 0
  /\ maxConcurrent = 1
  /\ active = 0 /\ callerPc = [c \in CallerIds |-> IdleCaller]
  \* the bucket as earlier requests left it: empty, or with one whole token
  /\ \E k \in 0..1 :
       bucket = [TokenBucket(requestsPerMinute, now) EXCEPT !.tokens = k * MINUTE_MS]
  /\ admitted = 0
  /\ \E n \in 0..MaxAdmitRetries : retryCfg = RetryCfg(n)
  /\ call = NoCall /\ cmd = NoCmd /\ indIn = <<>> /\ indOut = NoOut

NextAdmit ==
  \/ \E c \in CallerIds : SchedCall(c)
  \/ \E c \in CallerIds : SchedGateWake(c)
  \/ \E c \in CallerIds : SchedTakeWake(c)
  \/ \E c \in OtherCallers : SchedEnter(c)
  \/ \E c \in OtherCallers : SchedLeave(c)
  \/ AdmitElapse
  \/ KlinesEnter
  \/ KlinesResponse
  \/ KlinesBanWake
  \/ KlinesBackoffWake
  \/ KlinesSettle

SpecAdmit == InitAdmit /\ [][NextAdmit]_vars

\* ---------------------------------------------------------------------------
\* The bootstrap and update commands (index.ts) over a config whose intervals
\* list holds the known code Interval and an unknown one.
\* ---------------------------------------------------------------------------
MaxIntervals == 2
IngestOps == {"bootstrap", "update"}
UnknownInterval == "7x"
INTERVAL_MS == [c \in {Interval} |-> IntervalMs]
IntervalLists ==
  UNION {[1..n -> {Interval, UnknownInterval}] : n \in 1..MaxIntervals}

\* loadConfig and the start of the loops
CmdStart ==
  /\ cmd.status = "idle" /\ op = "idle"
  /\ \E name \in IngestOps, list \in IntervalLists, dry \in BOOLEAN :
       cmd' = [name |-> name, list |-> list, dry |-> dry, idx |-> 1, status |-> "check"]
  /\ UNCHANGED <<envVars, clientVars, kernelVars, storeVars, txOpen, txSnap, op, pc, dryRun,
                 localVars, obsVars>>

\* One pass of the inner loop up to the first await of the series function:
\* the INTERVAL_MS test, then bootstrapSeries(...) / updateSeries(...).
CmdCheck ==
  /\ cmd.status = "check" /\ op = "idle"
  /\ IF cmd.idx > Len(cmd.list)
     THEN /\ cmd' = [cmd EXCEPT !.status = "done"]
          /\ UNCHANGED <<envVars, storeVars, txOpen, txSnap, op, pc, dryRun, localVars, obsVars>>
     ELSE IF cmd.list[cmd.idx] \notin DOMAIN INTERVAL_MS
     THEN /\ cmd' = [cmd EXCEPT !.status = "failed"]
          /\ UNCHANGED <<envVars, storeVars, txOpen, txSnap, op, pc, dryRun, localVars, obsVars>>
     ELSE /\ cmd' = [cmd EXCEPT !.status = "series"]
          /\ IngestBegin(cmd.name, cmd.dry)
  /\ UNCHANGED <<clientVars, kernelVars>>

\* The series function running.
CmdSeries ==
  /\ cmd.status = "series"
  /\ IngestSteps(cmd.name)

\* A loop that goes on to the next interval whatever the series function did.
CmdAdvance_continue ==
  /\ cmd.status = "series" /\ op = "idle"
  /\ cmd' = [cmd EXCEPT !.idx = @ + 1, !.status = "check"]
  /\ UNCHANGED <<envVars, clientVars, kernelVars, storeVars, txOpen, txSnap, op, pc, dryRun,
                 localVars, obsVars>>

\* The series function returned (next interval) or threw (the command fails).
CmdAdvance ==
  /\ cmd.status = "series" /\ op = "idle"
  /\ cmd' = IF lastRun.ok THEN [cmd EXCEPT !.idx = @ + 1, !.status = "check"]
            ELSE [cmd EXCEPT !.status = "failed"]
  /\ UNCHANGED <<envVars, clientVars, kernelVars, storeVars, txOpen, txSnap, op, pc, dryRun,
                 localVars, obsVars>>

NextCommand ==
  \/ Tick
  \/ CmdStart
  \/ CmdCheck
  \/ CmdSeries
  \/ CmdAdvance

SpecCommand == Init /\ [][NextCommand]_vars

\* ---------------------------------------------------------------------------
\* The indicator kernels (indicators.ts) as computations on JavaScript arrays.
\* An array is the sequence of its cells, a cell being "null", "zero" (the
\* number 0), "num" (any number, NaN and Infinity included; of a close, a
\* number that is not 0) or "hole" (never assigned); index i of
\* the code is position i + 1 here.  A write past the end lengthens the array,
\* a read past the end gives undefined.  Of the input only what can make a
\* cell null is kept: whether each close is zero.
\* ---------------------------------------------------------------------------
MaxSeriesLen == 30
LongSeries == {50, 200, 201}

ArrayFill(len, v) == [i \in 1..len |-> v]
ArraySet(arr, i, v) ==
  IF i < Len(arr) THEN [arr EXCEPT ![i + 1] = v]
  ELSE arr \o [k \in 1..(i - Len(arr)) |-> "hole"] \o <<v>>
ArrayGet(arr, i) == IF i >= 0 /\ i < Len(arr) THEN arr[i + 1] ELSE "undefined"

\* for (let i = from; i < to; i++) { if (Writes(i)) arr[i] = Cell(i); } for a loop
\* whose test and value do not read the cells it writes: the array grows to
\* hold the highest index written, cells never assigned are holes.
For(from, to, arr, Writes(_), Cell(_)) ==
  LET written == {i \in from..(to - 1) : Writes(i)}
      len == IF \E i \in written : i >= Len(arr)
             THEN 1 + (CHOOSE i \in written : \A j \in written : j <= i)
             ELSE Len(arr)
  IN  [k \in 1..len |-> IF k - 1 \in written THEN Cell(k - 1)
                         ELSE IF k <= Len(arr) THEN arr[k] ELSE "hole"]

\* The seed sum / period is 0 when the first period values are all 0, and
\* v * k + prev * (1 - k) is 0 when v and prev are: the cell i is known to be 0
\* when the values 0..i all are.
ema(values, period) ==
  For(0, Len(values), ArrayFill(Len(values), "null"),
      LAMBDA i : i >= period - 1,
      LAMBDA i : IF \A j \in 0..i : ArrayGet(values, j) = "zero" THEN "zero" ELSE "num")

sma(values, period) ==
  For(0, Len(values), ArrayFill(Len(values), "null"),
      LAMBDA i : i >= period - 1, LAMBDA i : "num")

stddev(values, period, ma) ==
  For(period - 1, Len(values), ArrayFill(Len(values), "null"),
      LAMBDA i : ArrayGet(ma, i) # "null", LAMBDA i : "num")

\* The outer loop returns from inside its pass i = period, after the inner
\* loop has filled the rest.
rsiWilder(close, period) ==
  For(period, Len(close), ArrayFill(Len(close), "null"), LAMBDA i : TRUE, LAMBDA i : "num")

atrWilder(close, period) ==
  LET tr == For(0, Len(close), ArrayFill(Len(close), "num"), LAMBDA i : TRUE, LAMBDA i : "num")
  IN  For(0, Len(tr), ArrayFill(Len(close), "null"),
          LAMBDA i : i >= period - 1, LAMBDA i : "num")

\* adx.findIndex(v => v !== null)
findIndexNotNull(arr) ==
  LET found == {i \in 0..(Len(arr) - 1) : arr[i + 1] # "null"}
  IN  IF found = {} THEN -1 ELSE CHOOSE i \in found : \A j \in found : i <= j

\* The first smoothing loop of adxWilder: it sets adx at the period-th cell of
\* dxArr that is not null and breaks; without such a cell it sets nothing.
adxSeed(adx, dxArr, period) ==
  LET notNull(i) == {j \in 0..i : ArrayGet(dxArr, j) # "null"}
      seed == {i \in 0..(Len(adx) - 1) : i \in notNull(i) /\ Cardinality(notNull(i)) = period}
  IN  IF seed = {} THEN adx ELSE ArraySet(adx, CHOOSE i \in seed : TRUE, "num")

adxWilder_dx(close, period) ==
  LET len == Len(close)
      dx0 == ArraySet(ArrayFill(len, "null"), period, "num")
  IN  For(period + 1, len, dx0, LAMBDA i : TRUE, LAMBDA i : "num")

adxWilder(close, period) ==
  LET len == Len(close)
      dx0 == ArraySet(ArrayFill(len, "null"), period, "num")
      dxArr == For(period + 1, len, dx0, LAMBDA i : TRUE, LAMBDA i : "num")
      adx0 == adxSeed(ArrayFill(len, "null"), dxArr, period)
  IN  For(findIndexNotNull(adx0) + 1, len, adx0,
          LAMBDA i : ArrayGet(dxArr, i) # "null", LAMBDA i : "num")

\* Where both arrays hold a number: the loops of macd and of the Bollinger bands.
BothSet(a, b, len) ==
  For(0, len, ArrayFill(len, "null"),
      LAMBDA i : ArrayGet(a, i) # "null" /\ ArrayGet(b, i) # "null", LAMBDA i : "num")

\* macd with a signal line whose EMA is seeded from the MACD line's numbers only.
macd_numbersOnly(close, fast, slow, signal) ==
  LET macdLine == BothSet(ema(close, fast), ema(close, slow), Len(close))
      signalLine == ema([i \in 1..Len(macdLine) |-> "num"], signal)
  IN  [macd |-> macdLine, signal |-> signalLine,
       hist |-> BothSet(macdLine, signalLine, Len(close))]

\* macdLine.map(v => v === null ? 0 : v) feeds the signal line's EMA.
macd(close, fast, slow, signal) ==
  LET macdLine == BothSet(ema(close, fast), ema(close, slow), Len(close))
      signalLine == ema([i \in 1..Len(macdLine) |->
                           IF macdLine[i] = "null" THEN "zero" ELSE macdLine[i]], signal)
  IN  [macd |-> macdLine, signal |-> signalLine,
       hist |-> BothSet(macdLine, signalLine, Len(close))]

\* the returns with a loop that starts at index 2
returns_fromTwo(close) ==
  For(2, Len(close), ArrayFill(Len(close), "null"),
      LAMBDA i : TRUE, LAMBDA i : IF close[i] = "zero" THEN "null" ELSE "num")

returns(close) ==
  For(1, Len(close), ArrayFill(Len(close), "null"),
      LAMBDA i : TRUE, LAMBDA i : IF close[i] = "zero" THEN "null" ELSE "num")

IndicatorsOut(ohlcv) ==
  LET close == ohlcv
      macdAll == macd(close, 12, 26, 9)
      bb_mid == sma(close, 20)
      bb_std == stddev(close, 20, bb_mid)
      bb == BothSet(bb_mid, bb_std, Len(close))
  IN  [ema50 |-> ema(close, 50), ema200 |-> ema(close, 200),
       rsi14 |-> rsiWilder(close, 14), atr14 |-> atrWilder(close, 14),
       adx14 |-> adxWilder(close, 14), vol_ma20 |-> sma(close, 20),
       macd |-> macdAll.macd, macd_signal |-> macdAll.signal, macd_hist |-> macdAll.hist,
       bb_sma20 |-> bb_mid, bb_upper |-> bb, bb_lower |-> bb,
       pct_return_1 |-> returns(close), log_return_1 |-> returns(close)]

\* Series of 1..MaxSeriesLen bars with at most one zero close, and a few long ones.
InputSeries ==
  {[i \in 1..n |-> IF i = z THEN "zero" ELSE "pos"] : n \in 1..MaxSeriesLen, z \in 0..MaxSeriesLen}
    \cup {[i \in 1..n |-> "pos"] : n \in LongSeries}

InitIndicators ==
  /\ InitPipeline /\ exch = AllBars /\ cfgStart = 0
  /\ maxConcurrent = 1 /\ active = 0 /\ callerPc = [c \in CallerIds |-> IdleCaller]
  /\ bucket = TokenBucket(requestsPerMinute, now) /\ admitted = 0
  /\ retryCfg = NoRetry /\ call = NoCall /\ cmd = NoCmd
  /\ indIn \in InputSeries /\ indOut = NoOut

ComputeIndicators ==
  /\ indOut = NoOut
  /\ indOut' = IndicatorsOut(indIn)
  /\ UNCHANGED <<envVars, clientVars, cmd, storeVars, txOpen, txSnap, op, pc, dryRun,
                 localVars, obsVars, indIn>>

SpecIndicators == InitIndicators /\ [][ComputeIndicators]_vars

\* ------------------------------------------------- the kernels' values
\* The kernels above give which cells are set; the definitions below give the
\* values, in exact rational arithmetic on small integer closes.  A rational is
\* a pair <<numerator, denominator>> in lowest terms with a positive
\* denominator; the code's doubles are exact on the cases compared here
\* whenever the claim is about an exact value (0 losses, the value 100).
MaxValLen == 5
MaxClose == 3
ValuePeriods == {2, 3}
Infinity == "Infinity"
\* a cell of a kernel's output that holds null
NoValue == <<>>

RECURSIVE Gcd(_, _)
Gcd(a, b) == IF b = 0 THEN a ELSE Gcd(b, a % b)

Abs(x) == IF x < 0 THEN -x ELSE x

Q(n, d) ==
  LET g == Gcd(Abs(n), d)
  IN  IF n = 0 THEN <<0, 1>> ELSE <<n \div g, d \div g>>

QInt(n) == <<n, 1>>
QAdd(a, b) == Q(a[1] * b[2] + b[1] * a[2], a[2] * b[2])
QSub(a, b) == Q(a[1] * b[2] - b[1] * a[2], a[2] * b[2])
QMul(a, b) == Q(a[1] * b[1], a[2] * b[2])
\* a / b for b > 0
QDiv(a, b) == Q(a[1] * b[2], a[2] * b[1])

\* values[i] of a JavaScript array kept as a sequence
Idx(values, i) == values[i + 1]

RECURSIVE SumTo(_, _, _)
SumTo(values, from, to) ==
  IF from > to THEN 0 ELSE Idx(values, from) + SumTo(values, from + 1, to)

emaValues(values, period) ==
  LET k == Q(2, period + 1)
      out[i \in 0..(Len(values) - 1)] ==
        IF i < period - 1 THEN NoValue
        ELSE IF i = period - 1 THEN Q(SumTo(values, 0, i), period)
        ELSE QAdd(QMul(QInt(Idx(values, i)), k), QMul(out[i - 1], QSub(QInt(1), k)))
  IN  [j \in 1..Len(values) |-> out[j - 1]]

smaValues(values, period) ==
  [j \in 1..Len(values) |->
     IF j - 1 >= period - 1 THEN Q(SumTo(values, j - period, j - 1), period) ELSE NoValue]

\* 100 - (100 / (1 + rs)); 100 / Infinity is 0 in IEEE arithmetic
RsiOf(rs) ==
  IF rs = Infinity THEN QInt(100)
  ELSE QSub(QInt(100), QDiv(QInt(100), QAdd(QInt(1), rs)))

Gain(close, i) == IF Idx(close, i) - Idx(close, i - 1) > 0 THEN Idx(close, i) - Idx(close, i - 1) ELSE 0
Loss(close, i) == IF Idx(close, i) - Idx(close, i - 1) < 0 THEN Idx(close, i - 1) - Idx(close, i) ELSE 0

RECURSIVE GainSum(_, _)
GainSum(close, i) == IF i < 1 THEN 0 ELSE Gain(close, i) + GainSum(close, i - 1)
RECURSIVE LossSum(_, _)
LossSum(close, i) == IF i < 1 THEN 0 ELSE Loss(close, i) + LossSum(close, i - 1)

Rs_zero(avgGain, avgLoss) == IF avgLoss[1] = 0 THEN QInt(0) ELSE QDiv(avgGain, avgLoss)

Rs(avgGain, avgLoss) == IF avgLoss[1] = 0 THEN Infinity ELSE QDiv(avgGain, avgLoss)

rsiWilderValues(close, period) ==
  LET avg[i \in period..(Len(close) - 1)] ==
        IF i = period
          THEN [gain |-> Q(GainSum(close, i), period), loss |-> Q(LossSum(close, i), period)]
          ELSE [gain |-> QDiv(QAdd(QMul(avg[i - 1].gain, QInt(period - 1)), QInt(Gain(close, i))),
                              QInt(period)),
                loss |-> QDiv(QAdd(QMul(avg[i - 1].loss, QInt(period - 1)), QInt(Loss(close, i))),
                              QInt(period))]
  IN  [j \in 1..Len(close) |->
         IF j - 1 < period THEN NoValue ELSE RsiOf(Rs(avg[j - 1].gain, avg[j - 1].loss))]

KernelValues(close, period) ==
  [ema |-> emaValues(close, period), sma |-> smaValues(close, period),
   rsi |-> rsiWilderValues(close, period)]

\* Close series of 1..MaxValLen bars, a period, and the index k a suffix starts at.
ValueInputs ==
  UNION {[close : [1..n -> 1..MaxClose], period : ValuePeriods, k : 0..(n - 1)] : n \in 1..MaxValLen}

InitValues ==
  /\ InitPipeline /\ exch = AllBars /\ cfgStart = 0
  /\ maxConcurrent = 1 /\ active = 0 /\ callerPc = [c \in CallerIds |-> IdleCaller]
  /\ bucket = TokenBucket(requestsPerMinute, now) /\ admitted = 0
  /\ retryCfg = NoRetry /\ call = NoCall /\ cmd = NoCmd
  /\ indIn \in ValueInputs /\ indOut = NoOut

\* the full-series computation, and the same kernels over close.slice(k)
ComputeValues ==
  /\ indOut = NoOut
  /\ indOut' = [full |-> KernelValues(indIn.close, indIn.period),
                suffix |-> KernelValues(SubSeq(indIn.close, indIn.k + 1, Len(indIn.close)),
                                        indIn.period)]
  /\ UNCHANGED <<envVars, clientVars, cmd, storeVars, txOpen, txSnap, op, pc, dryRun,
                 localVars, obsVars, indIn>>

SpecValues == InitValues /\ [][ComputeValues]_vars

\* ---------------------------------------------------------------- properties
CandleKeys == {<<r.series_id, r.open_time>> : r \in candles}
IndicatorKeys == {<<r.series_id, r.open_time>> : r \in indicators}

\* The exchange bars a bootstrap over [from, to] has to store.
ClosedBars(from, to) == {t \in exch : t >= from /\ t <= to}

\* C1: after a bootstrap that completed without error and was not a dry run, the stored
\* candle open_times of the series are exactly the exchange bars with open_time in
\* [startDate, floor(now, ms) - 1], floor taken when the command read the clock.
C1_BootstrapStoresEveryClosedBar ==
  (lastRun.op = "bootstrap" /\ lastRun.ok /\ ~lastRun.dryRun)
    => /\ lastRun.start = cfgStart
       /\ lastRun.endClosed = lastRun.floorNow - 1
       /\ OpenTimes(candles, TheSeriesId) = ClosedBars(cfgStart, lastRun.floorNow - 1)

\* A completed bootstrap that needed more than one chunk and met an exchange-side hole.
C1_Witness ==
  /\ lastRun.op = "bootstrap" /\ lastRun.ok /\ ~lastRun.dryRun
  /\ Cardinality(candles) >= MAX_API_LIMIT
  /\ \E h \in AllBars \ exch : \E a, b \in OpenTimes(candles, TheSeriesId) : a < h /\ h < b

\* C2: bootstrap run twice in a row, or update run twice in a row, with the same exchange
\* answers and the same floor(now, ms): the second run leaves candles and indicators as
\* the first run left them.
C2_SecondRunChangesNothing ==
  (lastRun.op \in IngestOps /\ lastRun.ok /\ lastRun.prevOp = lastRun.op)
    => lastRun.unchanged

\* Bootstrap alone: the second of two bootstraps in a row changes nothing.
BootstrapTwiceChangesNothing ==
  (lastRun.op = "bootstrap" /\ lastRun.ok /\ lastRun.prevOp = "bootstrap") => lastRun.unchanged

\* C3: outside a transaction the candle keys and the indicator keys written by bootstrap
\* and update are the same set, and a transaction that ends leaves either all rows of
\* its chunk (candles and indicators) or none of them.
C3_ChunkAtomic ==
  /\ [](~txOpen => CandleKeys = IndicatorKeys)
  /\ [][(txOpen /\ ~txOpen')
          => \/ candles' = txSnap[1] /\ indicators' = txSnap[2]
             \/ /\ candles' = upsertCandles(txSnap[1], candleWrite)
                /\ indicators' = upsertIndicators(txSnap[2], indicWrite)
                /\ ~dryRun]_vars

\* An ingest interrupted by a write error after at least one chunk was committed, with
\* closed bars still missing.
C3_Witness ==
  /\ lastRun.op \in IngestOps /\ ~lastRun.ok /\ ~lastRun.dryRun
  /\ lastRun.summary.kind = "tx_error"
  /\ candles # {}
  /\ ClosedBars(lastRun.start, lastRun.endClosed) \ OpenTimes(candles, TheSeriesId) # {}

\* C4: every stored candle is closed, open_time + ms <= now, and every getKlines request
\* of bootstrap and update ends at or before floor(now, ms) - 1.
C4_OnlyClosedCandles ==
  /\ \A r \in candles : r.open_time + IntervalMs <= now
  /\ (op \in IngestOps /\ pc = "await")
       => req.endTime <= floorToInterval(now, IntervalMs) - 1

\* A repair has filled a gap while the newest exchange bar was still forming, and the
\* newest closed bar is stored.
C4_Witness ==
  /\ lastRun.op = "repair" /\ lastRun.ok /\ Len(lastRun.gaps) > 0
  /\ lastRun.summary.gaps_remaining = 0
  /\ now % IntervalMs # 0
  /\ \E r \in candles : r.open_time + IntervalMs = floorToInterval(now, IntervalMs)

KeysUnique(table) == \A a, b \in table : SameKey(a, b) => a = b

\* The rows of a batch that no later row of the batch overrides.
LastOfKey(rows) == {i \in 1..Len(rows) : \A j \in (i + 1)..Len(rows) : ~SameKey(rows[i], rows[j])}

\* C5: a table holds at most one candle row and at most one indicator row per
\* (series_id, open_time), and after an upsert the row stored under each key of the batch
\* is the batch's last row for that key, field for field.
C5_OneRowPerKeyFullOverwrite ==
  /\ KeysUnique(candles) /\ KeysUnique(indicators)
  /\ op = "upsert_candles" => \A i \in LastOfKey(candleWrite) : candleWrite[i] \in candles
  /\ op = "upsert_indicators" => \A i \in LastOfKey(indicWrite) : indicWrite[i] \in indicators

\* One batch names a key twice with different values: the second statement met the row
\* the first one stored and overwrote it.
C5_Witness ==
  /\ op = "upsert_candles" /\ Len(candleWrite) = 2
  /\ SameKey(candleWrite[1], candleWrite[2]) /\ candleWrite[1] # candleWrite[2]
  /\ candleWrite[2] \in candles /\ candleWrite[1] \notin candles
  /\ Cardinality(candles) > 1

\* The same uniqueness under the commands.
KeysUniqueInStore == KeysUnique(candles) /\ KeysUnique(indicators)

\* C6: a dry-run bootstrap or update started on an empty store leaves every table empty.
C6_DryRunLeavesStoreEmpty ==
  (lastRun.op \in IngestOps /\ lastRun.dryRun /\ lastRun.emptyAtStart)
    => /\ symbols = {} /\ intervals = {} /\ series = {}
       /\ candles = {} /\ indicators = {}

\* The bars of a gap, and whether the exchange has all of them.
GapBars(g) == {t \in g.startMissing..g.endMissing : (t - g.startMissing) % IntervalMs = 0}
Served(g) == GapBars(g) \subseteq exch
Continuous(times) == \A i \in 2..Len(times) : times[i] - times[i - 1] = IntervalMs
RepairDone == lastRun.op = "repair" /\ lastRun.ok /\ lastRun.summary.kind = "repair_summary"

C8_RepairLeavesNoNullRows ==
  RepairDone => lastRun.summary.null_indicator_rows_remaining = 0

\* A gap whose window lies inside an entry of the known_gaps registry.
Covered(g) ==
  \E k \in known_gaps : /\ k.series_id = TheSeriesId
                        /\ k.start_open_time <= g.startMissing
                        /\ g.endMissing <= k.end_open_time

\* C9: repair issues no getKlines request, and writes no row, for a gap covered by a
\* known_gaps entry.
C9_RepairSkipsKnownGaps ==
  (op = "repair" /\ phase = "gaps" /\ pc \in {"await", "tx_candles", "tx_indicators", "tx_end"})
    => ~Covered(gaps[gi])

\* C10: the gaps of verify's series_summary exclude every window covered by a known_gaps
\* entry.
C10_VerifyExcludesKnownGaps ==
  (lastRun.op = "verify" /\ lastRun.summary.kind = "series_summary")
    => \A i \in 1..Len(lastRun.summary.gaps) : ~Covered(lastRun.summary.gaps[i])

StoredTimes == OpenTimes(candles, 1)

\* A bootstrap that ran alone from an empty store on a fully served exchange
\* leaves the rows InitVerify starts from (BootstrapIndicator is what the
\* chunked loop stores).
BootstrapStoresTheVerifyRows ==
  (lastRun.op = "bootstrap" /\ lastRun.ok /\ ~lastRun.dryRun /\ lastRun.emptyAtStart
     /\ lastRun.prevOp = "none" /\ cfgStart = 0 /\ exch = AllBars /\ deletes = 0)
  => /\ candles = BootstrapCandles(StoredTimes)
     /\ indicators = BootstrapIndicators(StoredTimes)

\* C11: verify's gap detection reports exactly one gap for each pair of
\* consecutive stored open times that lie more than one interval apart, running
\* from the bar after the earlier one to the bar before the later one, with
\* missingBars the number of bars in between; so the candle count plus the
\* missing bars is the number of bars from the first to the last stored one.
ConsecutivePairs ==
  {p \in StoredTimes \X StoredTimes :
     p[1] < p[2] /\ ~\E t \in StoredTimes : p[1] < t /\ t < p[2]}
WidePairs == {p \in ConsecutivePairs : p[2] - p[1] > IntervalMs}
GapOfPair(p) == [startMissing |-> p[1] + IntervalMs, endMissing |-> p[2] - IntervalMs,
                 missingBars |-> Cardinality({t \in VerifyBars : p[1] < t /\ t < p[2]})]
SumMissing(g) == Cardinality({<<i, n>> \in (1..Len(g)) \X (1..(MaxVerifyBar + 1)) :
                                n <= g[i].missingBars})
VerifyReported == lastRun.op = "verify" /\ lastRun.ok /\ lastRun.summary.kind = "series_summary"
C11_VerifyGapDetection ==
  VerifyReported =>
    LET g == lastRun.summary.gaps
        lo == CHOOSE t \in StoredTimes : \A u \in StoredTimes : t <= u
        hi == CHOOSE t \in StoredTimes : \A u \in StoredTimes : u <= t
    IN  /\ Len(g) = Cardinality(WidePairs)
        /\ \A p \in WidePairs : \E i \in 1..Len(g) : g[i] = GapOfPair(p)
        /\ \A i \in 1..Len(g) : \E p \in WidePairs : g[i] = GapOfPair(p)
        /\ \A i \in 1..Len(g) : g[i].missingBars = ((g[i].endMissing - g[i].startMissing) \div IntervalMs) + 1
        /\ lastRun.summary.count + SumMissing(g) = ((hi - lo) \div IntervalMs) + 1

\* Three contiguous interior bars are gone from an otherwise continuous series
\* and verify has reported the one gap of three bars.
C11_Witness ==
  /\ VerifyReported
  /\ StoredTimes = VerifyBars \ {2 * IntervalMs, 3 * IntervalMs, 4 * IntervalMs}
  /\ lastRun.summary.gaps = <<[startMissing |-> 2 * IntervalMs, endMissing |-> 4 * IntervalMs,
                                missingBars |-> 3]>>

\* C12: verify is read-only: the step in which runVerify returns or throws
\* leaves every row of symbols, intervals, series, candles, indicators and
\* known_gaps as it was.
C12_VerifyReadOnly ==
  [][(lastRun'.op = "verify" /\ lastRun' # lastRun) => UNCHANGED storeVars]_vars

\* verify has reported gaps over a store that holds candles, indicators and a
\* registered known gap.
C12_Witness ==
  /\ VerifyReported /\ lastRun.summary.gaps # <<>>
  /\ candles # {} /\ indicators # {} /\ known_gaps # {}

\* C13: the number of scheduled functions executing at the same time never
\* exceeds maxConcurrent (with maxConcurrent = 1 no two executions overlap).
Running == {c \in CallerIds : callerPc[c].pc = "run"}
C13_AtMostMaxConcurrent == Cardinality(Running) <= maxConcurrent

\* C14: a bucket created full with rate R per minute and a caller always
\* waiting admits R - 1 .. R + 1 take() calls in the 60,000 ms after its
\* creation: never more than R + 1 inside the minute, at least R - 1 by its end.
C14_AdmitsRatePerMinute ==
  /\ now < MINUTE_MS => admitted <= bucket.refillPerMinute + 1
  /\ now = MINUTE_MS => admitted >= bucket.refillPerMinute - 1

\* C15: a permanent HTTP error is not retried: no request is sent after such a
\* response, and the call ends by throwing that error.
C15_PermanentNotRetried ==
  \A i \in 1..Len(call.resps) :
    call.resps[i].kind = "permanent"
      => /\ Len(call.sends) = i
         /\ call.pc = "done" => call.outcome = "thrown" /\ call.result = "permanent"

\* C16: one getKlines call sends at most maxRetries + 1 requests; it returns
\* the first successful response, which is the last one it received; it throws
\* only after maxRetries + 1 failed attempts, and then the error of the last.
Transient == {"418", "429", "timeout"}
C16_TransientRetried ==
  LET n == Len(call.resps)
  IN  /\ Len(call.sends) <= retryCfg.maxRetries + 1
      /\ \A i \in 1..n : call.resps[i].kind = "ok" => i = n /\ call.outcome = "returned"
      /\ call.outcome = "returned" => n >= 1 /\ call.resps[n].kind = "ok" /\ call.result = n
      /\ call.outcome = "thrown"
           => /\ n = retryCfg.maxRetries + 1
              /\ call.result = call.resps[n].kind
      /\ (call.pc = "done" /\ n >= 1 /\ call.resps[n].kind \in Transient) => n = retryCfg.maxRetries + 1

\* Two transient failures (a 429 and a timeout) were retried and the third
\* attempt's answer was returned.
C16_Witness ==
  /\ call.outcome = "returned" /\ Len(call.resps) = 3 /\ call.result = 3
  /\ call.resps[1].kind = "429" /\ call.resps[2].kind = "timeout"

\* C17: after a 418 or 429 with a Retry-After of r seconds, the next request
\* of the call is not sent earlier than r * 1000 ms after that response.
C17_RetryAfterHonoured ==
  \A i \in 1..Len(call.resps) :
    (/\ call.resps[i].kind \in {"418", "429"}
     /\ call.resps[i].retryAfter \notin {NULL, NaN}
     /\ i < Len(call.sends))
      => call.sends[i + 1] >= call.resps[i].at + call.resps[i].retryAfter * 1000

\* C18: a command whose intervals list holds an unknown code issues no
\* getKlines request and writes nothing to the store, wherever the unknown
\* code stands in the list.
HasUnknown(list) == \E i \in 1..Len(list) : list[i] \notin DOMAIN INTERVAL_MS
C18_UnknownIntervalRejectedFirst ==
  [][HasUnknown(cmd.list) => /\ (req' = req \/ req' = NoReq)
                             /\ storeVars' = storeVars]_vars

\* C19: the bootstrap, update, gap-repair and null-span-repair loops terminate:
\* every iteration leaves the loop bound alone and raises cursor by ms after an
\* empty or zero-write response and by the number of written (ingest) or
\* fetched (repair) bars times ms otherwise, and every running command ends.
IterationEnds ==
  /\ op \in {"bootstrap", "update", "repair"} /\ op' = op
  /\ pc # "loop" /\ pc' = "loop"
  /\ phase' = phase /\ gi' = gi /\ si' = si
IterationAdvance ==
  LET n == IF pc # "tx_end" THEN 0
           ELSE IF op = "repair" THEN Len(klines) ELSE Len(candleWrite)
  IN  /\ cursor' = cursor + (IF n = 0 THEN 1 ELSE n) * IntervalMs
      /\ endClosed' = endClosed /\ gaps' = gaps /\ nullSpans' = nullSpans
C19_LoopsTerminate ==
  /\ [][IterationEnds => IterationAdvance]_vars
  /\ (op # "idle") ~> (op = "idle")

\* An update that needed more than one chunk has run to its end.
C19_Witness ==
  /\ lastRun.op = "update" /\ lastRun.ok
  /\ lastRun.endClosed - lastRun.start >= MAX_API_LIMIT * IntervalMs

\* C20: every one of the 14 vectors computeIndicators returns has the length
\* of the input series, for series shorter than the warm-up periods too.
Computed == indOut # NoOut
C20_VectorsHaveInputLength ==
  Computed => \A f \in IndicatorFields : Len(indOut[f]) = Len(indIn)

\* A series of 14 bars, shorter than ADX's warm-up, has been computed.
C20_Witness == Computed /\ Len(indIn) = 14 /\ Len(indOut["adx14"]) = 14

\* The null cells of the kernels' vectors are those FieldIsNull names, and no
\* cell is a hole.  Two exceptions: a return is also null after a zero close;
\* and for a series of 15..27 bars adxWilder finds no seed, its second loop
\* starts at 0 and fills the cells from index 14 on with numbers.
KernelsAgreeWithFieldIsNull ==
  Computed =>
    \A f \in IndicatorFields : \A i \in 1..Len(indOut[f]) :
      /\ indOut[f][i] \in {"null", "zero", "num"}
      /\ (indOut[f][i] = "null")
           <=> IF f = "adx14" /\ Len(indIn) \in 15..27 THEN i - 1 < 14
               ELSE \/ FieldIsNull(f, i - 1)
                    \/ (f \in {"pct_return_1", "log_return_1"} /\ i > 1 /\ indIn[i - 1] = "zero")

\* C21: over a close series in which no close is lower than its predecessor,
\* rsiWilder is null at every index below the period and exactly 100 from the
\* period on.
NonDecreasing(close) == \A i \in 1..(Len(close) - 1) : close[i + 1] >= close[i]
ValuesComputed == indOut # NoOut
C21_RsiOfRisingSeriesIs100 ==
  (ValuesComputed /\ NonDecreasing(indIn.close)) =>
    \A i \in 0..(Len(indIn.close) - 1) :
      Idx(indOut.full.rsi, i) = IF i < indIn.period THEN NoValue ELSE QInt(100)
C21_Witness ==
  /\ ValuesComputed /\ NonDecreasing(indIn.close)
  /\ Len(indIn.close) > indIn.period + 1
  /\ indIn.close[1] < indIn.close[2] /\ indIn.close[2] = indIn.close[3]
  /\ Idx(indOut.full.rsi, indIn.period + 1) = QInt(100)

\* C23: the kernels are position-stable: computed over the suffix of the series
\* that starts at index k, the value emitted for a bar at index i >= k + warmup
\* equals, within a relative tolerance, the value the full-series computation
\* emits for that bar.  The warm-up of a kernel is the index of its first
\* emitted value (period - 1 for ema and sma, period for rsiWilder); the
\* tolerance here is 1/1000, wider than the 1e-9 of the claim.
Within(a, b) ==
  LET d == QSub(a, b)
  IN  Abs(d[1]) * b[2] * 1000 <= Abs(b[1]) * d[2]
StableFrom(kernel, warmup) ==
  \A i \in (indIn.k + warmup)..(Len(indIn.close) - 1) :
    Within(Idx(indOut.suffix[kernel], i - indIn.k), Idx(indOut.full[kernel], i))
C23_PositionStable ==
  ValuesComputed =>
    /\ StableFrom("sma", indIn.period - 1)
    /\ StableFrom("ema", indIn.period - 1)
    /\ StableFrom("rsi", indIn.period)
\* the part of C23 that holds: the windowed kernel is position-stable
SmaPositionStable == ValuesComputed => StableFrom("sma", indIn.period - 1)

\* C22: repair run twice in a row against unchanged exchange data (both runs
\* within one bar of the clock, so that the exchange answers alike): the
\* second run leaves candles and indicators as the first run left them.
SameBarStill == floorToInterval(now, IntervalMs) = lastRun.floorNow
C22_RepairTwiceChangesNothing ==
  (lastRun.op = "repair" /\ lastRun.ok /\ lastRun.prevOp = "repair" /\ SameBarStill)
    => lastRun.unchanged

\* C24: with an exchange that serves every bar, each indicator row that
\* bootstrap or update stores for a bar t was computed over a window whose
\* first bar lies at least min(OVERLAP_BARS, number of bars between the
\* configured start date and t) bars before t.
BarsSinceStart(t) == (t - cfgStart) \div IntervalMs
C24_PersistedRowsAreWarm ==
  exch = AllBars =>
    \A r \in indicators :
      r.open_time - r.first >= Min(OVERLAP_BARS, BarsSinceStart(r.open_time)) * IntervalMs

\* C25: update run right after a completed bootstrap, with the same exchange
\* answers and the same floor(now, ms), leaves every candle row and every
\* indicator row as bootstrap stored it.
C25_UpdateAfterBootstrapChangesNothing ==
  (lastRun.op = "update" /\ lastRun.ok /\ lastRun.prevOp = "bootstrap") => lastRun.unchanged
\* the candle half of C25, which holds
UpdateAfterBootstrapKeepsCandles ==
  (op = "update" /\ runInfo.prevOp = "bootstrap" /\ ~txOpen) => candles = runSnap[1]

\* C26: between commands, after any sequence of bootstrap, update and repair
\* runs (no row deleted by hand), every indicator row has a candle row with
\* the same (series_id, open_time).
C26_IndicatorRowsHaveCandles ==
  (op = "idle" /\ deletes = 0) => IndicatorKeys \subseteq CandleKeys

\* C27: an update that completes after a bootstrap of an empty store was
\* interrupted with some chunks committed stores the candles an uninterrupted
\* bootstrap stores: every exchange bar of [startDate, floor(now, ms) - 1],
\* floor taken when update read the clock, and no other.
ResumedUpdateDone ==
  lastRun.op = "update" /\ lastRun.ok /\ ~lastRun.dryRun /\ lastRun.prevOp = "interrupted"
C27_ResumedUpdateCompletesBootstrap ==
  ResumedUpdateDone =>
    /\ lastRun.start >= cfgStart
    /\ OpenTimes(candles, TheSeriesId) = ClosedBars(cfgStart, lastRun.endClosed)
\* bootstrap was cut after its first chunk and update stored the bars it had not reached
C27_Witness ==
  /\ ResumedUpdateDone
  /\ exch = AllBars
  /\ Cardinality(candles) > MAX_API_LIMIT
\* update resumed past the start date
ResumedPastStart == ResumedUpdateDone /\ lastRun.start > cfgStart

\* C28: a db.tx whose fn throws leaves both tables as they were at BEGIN and
\* the command ends on that error; a db.tx under dryRun whose fn returns
\* leaves both tables as they were at BEGIN and the caller goes on with the
\* loop; any other db.tx whose fn returns leaves the tables of BEGIN with all
\* of fn's writes, candles and indicators, applied.
TxThrew == op' = "idle"
C28_TxSemantics ==
  [][(txOpen /\ ~txOpen') =>
       IF TxThrew
         THEN /\ <<candles', indicators'>> = txSnap
              /\ ~lastRun'.ok /\ lastRun'.summary.kind = "tx_error"
       ELSE IF dryRun
         THEN /\ <<candles', indicators'>> = txSnap
              /\ pc' = "loop" /\ op' = op
       ELSE /\ candles' = upsertCandles(txSnap[1], candleWrite)
            /\ indicators' = upsertIndicators(txSnap[2], indicWrite)
            /\ pc' = "loop" /\ op' = op]_vars
\* a dry-run transaction with writes has ended and the loop goes on with the tables of BEGIN
C28_Witness ==
  /\ op \in IngestOps /\ dryRun /\ ~txOpen /\ pc = "loop"
  /\ Len(candleWrite) > 0 /\ Len(indicWrite) > 0
  /\ candles = {} /\ indicators = {}
\* a committed transaction: both tables hold the chunk just written
TxCommitted ==
  /\ op \in IngestOps /\ ~dryRun /\ ~txOpen /\ pc = "loop"
  /\ Len(candleWrite) > 0
  /\ \A i \in 1..Len(candleWrite) : candleWrite[i] \in candles
  /\ \A i \in 1..Len(indicWrite) : indicWrite[i] \in indicators

\* C29: within a bootstrap or update run cursor never decreases and is
\* strictly higher after every iteration; each request starts at or after the
\* previous one and is issued with no transaction open, so chunks are
\* committed in the order they are fetched; the rows a chunk's transaction is
\* given all have open_time >= cursor, and no step of the run creates, changes
\* or removes a candle or indicator row with open_time below cursor.
Below(table, cur) == {r \in table : r.open_time < cur}
RowsBelowCursorKept ==
  /\ Below(candles', cursor) = Below(candles, cursor)
  /\ Below(indicators', cursor) = Below(indicators, cursor)
CursorAndRequestsAscend ==
  /\ cursor' >= cursor
  /\ (pc # "loop" /\ pc' = "loop") => (cursor' > cursor)
  /\ req'.startTime >= req.startTime
  /\ (pc' = "await") => ~txOpen'
C29_CursorMonotoneWritesAtOrAboveCursor ==
  /\ [][(op \in IngestOps) =>
          (RowsBelowCursorKept /\ ((op' = op) => CursorAndRequestsAscend))]_vars
  /\ []((op \in IngestOps /\ txOpen) =>
          /\ \A i \in 1..Len(candleWrite) : candleWrite[i].open_time >= cursor
          /\ \A i \in 1..Len(indicWrite) : indicWrite[i].open_time >= cursor)
\* a later chunk was committed: overlap rows were fetched and left alone
C29_Witness ==
  /\ op \in IngestOps /\ ~dryRun /\ ~txOpen /\ pc = "loop"
  /\ cursor > start
  /\ Len(candleWrite) > 0 /\ Len(klines) > Len(candleWrite)
  /\ \E r \in indicators : r.open_time >= klines[1].openTime /\ r.first < klines[1].openTime

\* C30: every scheduled call releases the gate exactly once when its function
\* settles, resolved or rejected, and keeps its token: the step that takes a
\* caller out of its function lowers active by one and leaves the bucket
\* alone, active changes by one at a time, and active always equals the
\* number of functions executing (so it is never negative and is 0 when none
\* executes).
Settles(c) == callerPc[c].pc = "run" /\ callerPc'[c].pc # "run"
C30_GateReleasedOncePerCall ==
  /\ [](active = Cardinality(Running))
  /\ [][/\ \A c \in CallerIds :
            Settles(c) => /\ callerPc'[c].pc \in {"done", "failed"}
                          /\ active' = active - 1
                          /\ bucket' = bucket /\ admitted' = admitted
        /\ (active' < active) => \E c \in CallerIds : Settles(c)]_vars
\* one call resolved, another was rejected, and the gate is free again
C30_Witness ==
  /\ \E c, d \in CallerIds : callerPc[c].pc = "done" /\ callerPc[d].pc = "failed"
  /\ active = 0 /\ admitted = MaxCallers

\* C31: the delay between a 418 or 429 response and the next request of the
\* same getKlines call is at least baseMs and at most maxMs, whatever the
\* attempt number, the jitter and the Retry-After header.
C31_RateLimitDelayWithinMaxMs ==
  \A i \in 1..Len(call.resps) :
    (call.resps[i].kind \in {"418", "429"} /\ i < Len(call.sends))
      => /\ call.sends[i + 1] - call.resps[i].at >= retryCfg.baseMs
         /\ call.sends[i + 1] - call.resps[i].at <= retryCfg.maxMs
\* the two sleeps together stay within twice maxMs
RateLimitDelayWithinTwiceMaxMs ==
  \A i \in 1..Len(call.resps) :
    (call.resps[i].kind \in {"418", "429"} /\ i < Len(call.sends))
      => /\ call.sends[i + 1] - call.resps[i].at >= 2 * retryCfg.baseMs
         /\ call.sends[i + 1] - call.resps[i].at <= 2 * retryCfg.maxMs

\* C32: gap repair writes candle rows only for open_times inside
\* [startMissing, endMissing] of the gap being repaired and null-span repair
\* writes none: the candle writes handed to a repair transaction lie in the
\* gap, no step of the null-span phase changes the candles table, a step of
\* the gap phase adds or (rolling back) removes rows of the gap only, and no
\* row stored when repair starts lies in a gap it is going to repair.
InGap(r, g) ==
  r.series_id = Meta.id /\ r.open_time >= g.startMissing /\ r.open_time <= g.endMissing
RepairCandleStep ==
  /\ (phase = "nulls") => (candles' = candles)
  /\ (phase = "gaps") =>
       \A r \in (candles' \ candles) \cup (candles \ candles') : InGap(r, gaps[gi])
  /\ \A r \in candles' \ candles : \A x \in candles : ~SameKey(r, x)
C32_RepairCandleFrame ==
  /\ [][(op = "repair") => RepairCandleStep]_vars
  /\ []((op = "repair" /\ txOpen) =>
          IF phase = "gaps"
          THEN \A i \in 1..Len(candleWrite) : InGap(candleWrite[i], gaps[gi])
          ELSE candleWrite = <<>>)
  /\ [][(op = "idle" /\ op' = "repair") =>
          \A i \in 1..Len(gaps') : \A r \in candles : ~InGap(r, gaps'[i])]_vars
\* a chunk of a gap window was committed: fewer candle rows than fetched bars
\* were written, all of them in the gap, and rows outside it were stored before
C32_Witness ==
  /\ op = "repair" /\ phase = "gaps" /\ pc = "loop" /\ ~txOpen
  /\ Len(candleWrite) > 0 /\ Len(klines) > Len(candleWrite)
  /\ \A i \in 1..Len(candleWrite) : candleWrite[i] \in candles
  /\ \E r \in candles : ~InGap(r, gaps[gi])

\* C33: store writes are serialised with fetching during bootstrap, update
\* and repair: a getKlines call is issued from the loop head only, with no
\* call outstanding and no transaction open; a transaction begins only when
\* the awaited response has arrived and none is open (BEGIN is never nested);
\* and while a transaction is open the command is inside db.tx, not awaiting
\* a request.
InTx == pc \in {"tx_candles", "tx_indicators", "tx_end"}
C33_FetchAndWriteSerialised ==
  /\ [](txOpen <=> InTx)
  /\ [](pc = "await" => ~txOpen)
  /\ [][(pc' = "await" /\ pc # "await") => (pc = "loop" /\ ~txOpen /\ ~txOpen')]_vars
  /\ [][(txOpen' /\ (~txOpen \/ txSnap' # txSnap)) => (pc = "await" /\ ~txOpen)]_vars
\* a request is in flight after an earlier chunk of the same run was committed
C33_Witness ==
  /\ op \in {"bootstrap", "update", "repair"} /\ pc = "await" /\ ~txOpen /\ ~dryRun
  /\ Len(klines) > 0 /\ Len(indicWrite) > 0
  /\ \A i \in 1..Len(indicWrite) : indicWrite[i] \in indicators

\* C34: the pairs of a command are processed one after another in the order
\* of the configured list: the position only moves forward by one, when the
\* series function of the current pair has returned without error with
\* nothing in flight and no transaction open; every fetch and every store
\* write happens during the turn of the pair at the current position; an
\* error that escapes a pair fails the command, and a failed command fetches
\* and writes nothing more.
PairRunning == op # "idle" \/ op' # "idle"
C34_PairsInOrder ==
  /\ [][(cmd'.idx # cmd.idx) =>
          \/ cmd.status = "idle" /\ cmd'.idx = 1
          \/ /\ cmd'.idx = cmd.idx + 1 /\ cmd.status = "series"
             /\ op = "idle" /\ pc = "idle" /\ ~txOpen /\ lastRun.ok]_vars
  /\ [][(PairRunning \/ storeVars' # storeVars \/ req' # req) =>
          /\ cmd.status \in {"check", "series"} /\ cmd'.status = "series"
          /\ cmd'.idx = cmd.idx /\ cmd.list[cmd.idx] \in DOMAIN INTERVAL_MS]_vars
  /\ [][(cmd.status = "series" /\ op = "idle" /\ ~lastRun.ok /\ cmd' # cmd) =>
          cmd' = [cmd EXCEPT !.status = "failed"]]_vars
  /\ [][(cmd.status = "failed") =>
          (cmd' = cmd /\ op' = "idle" /\ req' = req /\ storeVars' = storeVars)]_vars
\* the first of two pairs failed with the second one still to come
C34_Witness ==
  /\ cmd.status = "failed" /\ cmd.idx = 1 /\ cmd.list = <<Interval, Interval>>
  /\ lastRun.op = cmd.name /\ ~lastRun.ok /\ lastRun.summary.kind = "fetch_error"
\* the second pair ran to its end after the first
SecondPairDone ==
  /\ cmd.status = "done" /\ cmd.list = <<Interval, Interval>> /\ ~cmd.dry /\ candles # {}

\* C35: the null-indicator spans verify reports are the spans repair derives
\* from the same store, and they are exactly the maximal runs of
\* ms-contiguous all-null indicator rows past the warm-up cut, each run
\* reported once, in whatever order the store returns the rows.
MaximalRuns(S, step) ==
  {[start |-> a, end |-> b] : <<a, b>> \in
     {p \in S \X S : /\ p[1] <= p[2]
                     /\ \A t \in p[1]..p[2] : (t - p[1]) % step = 0 => t \in S
                     /\ (p[2] - p[1]) % step = 0
                     /\ p[1] - step \notin S /\ p[2] + step \notin S}}
SpanSet(q) == {q[i] : i \in 1..Len(q)}
RepairSpans == mergeContiguous(SortAsc(VerifyNullRows), Meta.intervalMs)
C35_NullSpansAreMaximalRuns ==
  VerifyReported =>
    /\ lastRun.summary.nullSpans = RepairSpans
    /\ SpanSet(lastRun.summary.nullSpans) = MaximalRuns(VerifyNullRows, Meta.intervalMs)
    /\ Len(lastRun.summary.nullSpans) = Cardinality(SpanSet(lastRun.summary.nullSpans))
\* the repair half of C35, which holds: over rows in ascending order the merge
\* yields the maximal runs
RepairSpansAreMaximalRuns ==
  series # {} =>
    /\ SpanSet(RepairSpans) = MaximalRuns(VerifyNullRows, Meta.intervalMs)
    /\ Len(RepairSpans) = Cardinality(SpanSet(RepairSpans))
\* a store with a run of two null rows and a separate third one
ThreeNullRowsTwoRuns ==
  Cardinality(VerifyNullRows) = 3 /\ Len(RepairSpans) = 2

\* C36: macd(close, 12, 26, 9) over any close series gives macd and hist null
\* exactly at the indices below 25, and signal null exactly at the indices
\* below 8 and exactly 0 at the indices 8..24.
C36_MacdNullPattern ==
  Computed =>
    \A i \in 0..(Len(indIn) - 1) :
      /\ (ArrayGet(indOut["macd"], i) = "null") <=> i < 25
      /\ (ArrayGet(indOut["macd_hist"], i) = "null") <=> i < 25
      /\ (ArrayGet(indOut["macd_signal"], i) = "null") <=> i < 8
      /\ (i >= 8 /\ i <= 24) => ArrayGet(indOut["macd_signal"], i) = "zero"
\* a series longer than the slow period has been computed: the signal is 0 at
\* index 24 and the MACD line a number at index 25
C36_Witness ==
  /\ Computed /\ Len(indIn) > 26
  /\ ArrayGet(indOut["macd_signal"], 24) = "zero"
  /\ ArrayGet(indOut["macd"], 25) = "num"

\* C37: over an input series whose closes are all non-zero, the row of
\* computeIndicators at index 0 has all 14 fields null, no other row has, and
\* every row at an index >= 199 has all 14 fields non-null.
AllNonZero(close) == \A i \in 1..Len(close) : close[i] # "zero"
RowAllNull(i) == \A f \in IndicatorFields : ArrayGet(indOut[f], i) = "null"
RowNoneNull(i) == \A f \in IndicatorFields : ArrayGet(indOut[f], i) \in {"zero", "num"}
C37_OneAllNullRow ==
  (Computed /\ AllNonZero(indIn)) =>
    \A i \in 0..(Len(indIn) - 1) :
      /\ RowAllNull(i) <=> i = 0
      /\ i >= 199 => RowNoneNull(i)
\* a series of 201 non-zero closes has been computed: row 0 is all null, row 200 has no null
C37_Witness ==
  /\ Computed /\ AllNonZero(indIn) /\ Len(indIn) = 201
  /\ RowAllNull(0) /\ RowNoneNull(200)

\* C38: whatever the interleaving of the take() calls and however the clock
\* moves, forward or backward, the bucket holds between 0 and capacity
\* tokens; a step that lets a take() return finds at least one token after its
\* refill and removes exactly one, in that same step, and no other step lowers
\* the tokens.
TokensInRange == bucket.tokens >= 0 /\ bucket.tokens <= bucket.capacity
TakeStep ==
  /\ admitted' # admitted =>
       /\ admitted' = admitted + 1
       /\ HasToken(refill(bucket, now))
       /\ bucket'.tokens = refill(bucket, now).tokens - MINUTE_MS
  /\ admitted' = admitted => bucket'.tokens >= bucket.tokens
C38_TokensWithinCapacity == []TokensInRange /\ [][TakeStep]_vars
\* the clock stands before the last refill, tokens have been taken and a caller
\* found the bucket empty
C38_Witness ==
  /\ now < bucket.lastRefill /\ admitted >= 2
  /\ ~HasToken(bucket)
  /\ \E c \in CallerIds : callerPc[c].pc = "take_sleep"

\* C39: one getKlines call takes one token and holds one gate slot from before
\* its first request until its last attempt has settled, whatever retries and
\* sleeps happen in between: a retry's request changes neither the bucket nor
\* the gate, so a call sends up to 1 + maxRetries requests on its one token.
HasTaken(c) == callerPc[c].pc \in {"taken", "run", "done", "failed"}
InAttempts == call.pc \in {"fetch", "ban_sleep", "backoff"}
OneTokenOneSlot ==
  /\ admitted = Cardinality({c \in CallerIds : HasTaken(c)})
  /\ active = Cardinality({c \in CallerIds : callerPc[c].pc = "run"})
  /\ Len(call.sends) >= 1 => HasTaken(KlinesCaller)
  /\ InAttempts => callerPc[KlinesCaller].pc = "run"
  /\ callerPc[KlinesCaller].pc \in {"done", "failed"} => call.pc = "done"
  /\ Len(call.sends) <= 1 + retryCfg.maxRetries
RetryTakesNothing ==
  (Len(call.sends') > Len(call.sends) /\ Len(call.sends) >= 1) =>
    (bucket' = bucket /\ admitted' = admitted /\ active' = active /\ callerPc' = callerPc)
C39_OneTokenPerCall == []OneTokenOneSlot /\ [][RetryTakesNothing]_vars
\* the call has settled after 1 + MaxAdmitRetries requests while it alone took a token
C39_Witness ==
  /\ callerPc[KlinesCaller].pc = "failed" /\ admitted = 1
  /\ retryCfg.maxRetries = MaxAdmitRetries /\ Len(call.sends) = 1 + MaxAdmitRetries

====
